---- MODULE Spec2Model ----
(***************************************************************************)
(* Model of the autoswarm agent: conversion of standalone containers into  *)
(* single-replica Swarm services (docker_manager.py, utils.py), the        *)
(* reconciliation of services with Dokploy application records             *)
(* (reconciler.py, dokploy_client.py) and the two loops that drive them    *)
(* (event_monitor.py, main).                                                *)
(*                                                                         *)
(* Strings that the code takes apart (container names, label values that   *)
(* are lower-cased) are tuples of one-character strings.  A label key is   *)
(* the tuple of its dot-separated segments, so "traefik.r.rule" is         *)
(* <<"traefik","r","rule">>.  A service label value is a tuple of clauses  *)
(* [t, a]: Host(`h`) is [t |-> "Host", a |-> <<h>>], the text Host(h)      *)
(* without backticks is "HostRaw", PathPrefix(`/p`) is "Path", and any     *)
(* other text is "Lit" with its characters in a.                           *)
(***************************************************************************)
EXTENDS Integers, Sequences, FiniteSets, TLC

(***************************************************************************)
(* Bounds of the model.                                                    *)
(***************************************************************************)
MaxCycles == 2
MaxExternal == 1
MaxNow == 5
MaxNameLen == 3

(***************************************************************************)
(* config.py                                                               *)
(***************************************************************************)
IGNORED_LABEL == <<"autoswarm", "ignore">>
MANAGED_LABEL == <<"autoswarm", "managed">>
SOURCE_LABEL == <<"autoswarm", "source">>
TRAEFIK_NETWORK_NAME == "traefik-public"

(***************************************************************************)
(* Characters and str methods used by utils.py.                            *)
(***************************************************************************)
LowerLetters == {"a", "b", "e", "r", "t", "u", "w"}
UpperLetters == {"A", "B", "E", "R", "T", "U", "W"}
Digits == {"0", "1"}

LowerChar(ch) ==
    CASE ch = "A" -> "a" [] ch = "B" -> "b" [] ch = "E" -> "e"
      [] ch = "R" -> "r" [] ch = "T" -> "t" [] ch = "U" -> "u"
      [] ch = "W" -> "w" [] OTHER -> ch

IsAlnum(ch) == ch \in LowerLetters \cup UpperLetters \cup Digits

Lower(s) == [i \in 1..Len(s) |-> LowerChar(s[i])]

RECURSIVE LStrip(_, _)
LStrip(s, ch) ==
    IF s # <<>> /\ Head(s) = ch THEN LStrip(Tail(s), ch) ELSE s

RECURSIVE RStrip(_, _)
RStrip(s, ch) ==
    IF s # <<>> /\ s[Len(s)] = ch THEN RStrip(SubSeq(s, 1, Len(s) - 1), ch) ELSE s

Strip(s, ch) == RStrip(LStrip(s, ch), ch)

Prefix(s, n) == SubSeq(s, 1, IF Len(s) < n THEN Len(s) ELSE n)

TrueText == <<"t", "r", "u", "e">>
FalseText == <<"f", "a", "l", "s", "e">>
AutoswarmPrefix == <<"a", "u", "t", "o", "s", "w", "a", "r", "m", "-">>

EmptyMap == [k \in {} |-> <<>>]

\* dict.get(key, default)
Get(map, key, default) == IF key \in DOMAIN map THEN map[key] ELSE default

(***************************************************************************)
(* utils.py                                                                *)
(***************************************************************************)
SwarmKeys ==
    {<<"com", "docker", "swarm", "service", "name">>,
     <<"com", "docker", "swarm", "task">>,
     <<"com", "docker", "compose", "project">>,
     MANAGED_LABEL}

is_swarm_container(labels) ==
    IF DOMAIN labels = {} THEN FALSE
    ELSE \E key \in SwarmKeys : key \in DOMAIN labels

\* should_ignore comparing the label's text as it stands, without .lower()
should_ignore_exact(labels) ==
    IF DOMAIN labels = {} THEN FALSE
    ELSE Get(labels, IGNORED_LABEL, FalseText) = TrueText

should_ignore(labels) ==
    IF DOMAIN labels = {} THEN FALSE
    ELSE Lower(Get(labels, IGNORED_LABEL, FalseText)) = TrueText

\* a sanitizer that keeps the letter case
SanitizeKeepCase(ch) ==
    IF IsAlnum(ch) \/ ch \in {"-", "_"} THEN ch ELSE "-"

SanitizeChar(ch) ==
    IF IsAlnum(ch) THEN LowerChar(ch)
    ELSE IF ch \in {"-", "_"} THEN ch
    ELSE "-"

derive_service_name(container_attrs) ==
    LET stripped == LStrip(container_attrs.Name, "/")
        raw_name == IF stripped = <<>> THEN Prefix(container_attrs.Id, 12)
                    ELSE stripped
        sanitized == [i \in 1..Len(raw_name) |-> SanitizeChar(raw_name[i])]
        name == Strip(sanitized, "-")
    IN  IF name = <<>> THEN AutoswarmPrefix \o Prefix(container_attrs.Id, 8)
        ELSE name

(***************************************************************************)
(* The engine's networks (client.networks.list()): name -> id and driver.  *)
(***************************************************************************)
EngineNetworks ==
    (TRAEFIK_NETWORK_NAME :> [id |-> "tnet", Driver |-> "overlay"])
    @@ ("appnet" :> [id |-> "anet", Driver |-> "overlay"])
    @@ ("localnet" :> [id |-> "lnet", Driver |-> "bridge"])

RECURSIVE SetToSeq(_)
SetToSeq(S) ==
    IF S = {} THEN <<>>
    ELSE LET x == CHOOSE y \in S : TRUE IN <<x>> \o SetToSeq(S \ {x})

RECURSIVE SelectIdx(_, _, _)
\* the indexes i >= from of seq, in order, with i \in keep
SelectIdx(seq, keep, from) ==
    IF from > Len(seq) THEN <<>>
    ELSE (IF from \in keep THEN <<seq[from]>> ELSE <<>>)
         \o SelectIdx(seq, keep, from + 1)

Lit(chars) == <<[t |-> "Lit", a |-> chars]>>
HostRule(h) == <<[t |-> "Host", a |-> <<h>>]>>

(***************************************************************************)
(* docker_manager.py: the container translator.  Ports, restart policy,    *)
(* env, user, command and tty are copied into the task template and read   *)
(* by no operation of the daemon afterwards; the task template keeps the   *)
(* image, the mounts and the placement.                                    *)
(***************************************************************************)
collect_networks(container_attrs) ==
    LET attached == {n \in container_attrs.Networks :
                        n \notin {"bridge", "host", "none"}}
        overlay_names == IF TRAEFIK_NETWORK_NAME # ""
                         THEN attached \cup {TRAEFIK_NETWORK_NAME}
                         ELSE attached
        kept == {n \in overlay_names :
                    /\ n \in DOMAIN EngineNetworks
                    /\ EngineNetworks[n].Driver = "overlay"}
    IN  SetToSeq({[Target |-> EngineNetworks[n].id] : n \in kept})

collect_mounts(container_attrs) ==
    LET ms == container_attrs.Mounts
        keep == {i \in DOMAIN ms : ms[i].Destination # <<>> /\ ms[i].Source # <<>>}
        entry(m) == [Target |-> m.Destination, Source |-> m.Source,
                     Type |-> m.Type, ReadOnly |-> ~m.RW]
    IN  SelectIdx([i \in DOMAIN ms |-> entry(ms[i])], keep, 1)

\* a path is the tuple of its segments: /var/lib/docker/volumes/v/_data
VolumeRoot == <<"var", "lib", "docker", "volumes">>

\* Source.startswith("/var/lib/docker/volumes/")
StartsWithVolumeRoot(path) ==
    Len(path) > Len(VolumeRoot) /\ SubSeq(path, 1, Len(VolumeRoot)) = VolumeRoot

\* a rule that looks at volumes only
VolumesNeedLocal(mounts) ==
    \E i \in DOMAIN mounts :
        mounts[i].Type = "volume" /\ ~StartsWithVolumeRoot(mounts[i].Source)

requires_local_constraint(mounts) ==
    \E i \in DOMAIN mounts :
        \/ mounts[i].Type = "bind"
        \/ /\ mounts[i].Type = "volume"
           /\ ~StartsWithVolumeRoot(mounts[i].Source)

\* a translator that asks for two replicas
TwoReplicaMode == [Replicated |-> [Replicas |-> 2]]

\* "Mode": {"Replicated": {"Replicas": 1}}
ServiceMode == [Replicated |-> [Replicas |-> 1]]

build_service_spec(container_attrs, local_node_id) ==
    LET mounts == collect_mounts(container_attrs)
        networks == collect_networks(container_attrs)
        constraints == IF requires_local_constraint(mounts)
                       THEN {<<"node.id==", local_node_id>>}
                       ELSE {}
    IN  [Name |-> derive_service_name(container_attrs),
         TaskTemplate |->
             [ContainerSpec |-> [Image |-> container_attrs.Image,
                                 Mounts |-> mounts,
                                 Labels |-> EmptyMap],
              Placement |-> constraints],
         Mode |-> ServiceMode,
         Labels |-> (MANAGED_LABEL :> Lit(TrueText))
                    @@ (SOURCE_LABEL :> Lit(LStrip(container_attrs.Name, "/"))),
         Networks |-> networks]

(***************************************************************************)
(* reconciler.py: pure part.                                               *)
(***************************************************************************)
NoMatch == ""
NoHost == ""

\* key.endswith(".rule")
EndsWithRule(key) == Len(key) >= 2 /\ key[Len(key)] = "rule"

\* "Host(" in value
ContainsHostText(value) == \E i \in DOMAIN value : value[i].t \in {"Host", "HostRaw"}

RECURSIVE FirstHostFrom(_, _)
FirstHostFrom(value, i) ==
    IF i > Len(value) THEN NoMatch
    ELSE IF value[i].t = "Host" THEN value[i].a[1]
    ELSE FirstHostFrom(value, i + 1)

\* HOST_RULE_RE.search(value), group(1); NoMatch when the pattern is absent
SearchHost(value) == FirstHostFrom(value, 1)

\* a normalize_router_rule that adds the clause of the host to the rule
normalize_router_rule_append(value, host) ==
    LET match == SearchHost(value)
    IN  IF match # NoMatch /\ match = host
        THEN [value |-> value, modified |-> FALSE]
        ELSE [value |-> value \o HostRule(host), modified |-> TRUE]

normalize_router_rule(value, host) ==
    LET match == SearchHost(value)
    IN  IF match # NoMatch /\ match = host
        THEN [value |-> value, modified |-> FALSE]
        ELSE [value |-> HostRule(host), modified |-> TRUE]

IsHostRuleLabel(pair) == EndsWithRule(pair[1]) /\ ContainsHostText(pair[2])

RECURSIVE CurrentHostFrom(_, _)
CurrentHostFrom(pairs, i) ==
    IF i > Len(pairs) THEN NoHost
    ELSE IF IsHostRuleLabel(pairs[i]) /\ SearchHost(pairs[i][2]) # NoMatch
         THEN SearchHost(pairs[i][2])
    ELSE CurrentHostFrom(pairs, i + 1)

\* key=lambda item: item.get("createdAt") or item.get("uniqueConfigKey") or ""
\* (0 stands for a missing or empty value, and sorts first like "")
DomainSortKey(d) == IF d.createdAt # 0 THEN d.createdAt ELSE d.uniqueConfigKey

\* a build_desired_labels that takes the application domain of largest key
\* whatever the rules name
PrimaryDomainLargest(labels, domains) ==
    LET application_domains ==
            {i \in DOMAIN domains : domains[i].domainType = "application"}
    IN  IF application_domains = {} THEN 0
        ELSE CHOOSE i \in application_domains :
                 \A j \in application_domains :
                     \/ DomainSortKey(domains[j]) < DomainSortKey(domains[i])
                     \/ /\ DomainSortKey(domains[j]) = DomainSortKey(domains[i])
                        /\ j <= i

\* index of the primary domain in domains, 0 when there is none
PrimaryDomainIndex(labels, domains) ==
    LET current_host == CurrentHostFrom(labels, 1)
        matching == IF current_host # NoHost
                    THEN {i \in DOMAIN domains : domains[i].host = current_host}
                    ELSE {}
        application_domains ==
            {i \in DOMAIN domains : domains[i].domainType = "application"}
        \* the stable ascending sort puts last the latest entry of largest key
        last == CHOOSE i \in application_domains :
                    \A j \in application_domains :
                        \/ DomainSortKey(domains[j]) < DomainSortKey(domains[i])
                        \/ /\ DomainSortKey(domains[j]) = DomainSortKey(domains[i])
                           /\ j <= i
    IN  IF matching # {} THEN CHOOSE i \in matching : \A j \in matching : i <= j
        ELSE IF application_domains # {} THEN last
        ELSE 0

\* the host of the primary domain, "" when there is none or it has no host
PrimaryHost(labels, domains) ==
    LET p == PrimaryDomainIndex(labels, domains)
    IN  IF p = 0 THEN "" ELSE domains[p].host

\* one turn of the loop over list(labels.items()) that rewrites host rules
RewriteLabel(pair, host) ==
    IF host # "" /\ IsHostRuleLabel(pair)
    THEN normalize_router_rule(pair[2], host)
    ELSE [value |-> pair[2], modified |-> FALSE]

RewriteLabels(labels, host) ==
    [labels |-> [i \in DOMAIN labels |-> <<labels[i][1], RewriteLabel(labels[i], host).value>>],
     changed |-> \E i \in DOMAIN labels : RewriteLabel(labels[i], host).modified]

build_desired_labels(application) ==
    RewriteLabels(application.labelsSwarm,
                  PrimaryHost(application.labelsSwarm, application.domains))

build_desired_networks(application, traefik_network_id) ==
    LET ns == application.networkSwarm
        keep == {i \in DOMAIN ns : ns[i].Target # ""}
        networks == SelectIdx(ns, keep, 1)
        targets == {networks[i].Target : i \in DOMAIN networks}
    IN  IF traefik_network_id # "" /\ traefik_network_id \notin targets
        THEN Append(networks, [Target |-> traefik_network_id])
        ELSE networks

\* dict(pairs): the mapping of an ordered list of key/value pairs
PairsToMap(pairs) ==
    [k \in {pairs[i][1] : i \in DOMAIN pairs} |->
        LET i == CHOOSE j \in DOMAIN pairs : pairs[j][1] = k IN pairs[i][2]]

\* a comparison that asks for the same labels rather than for a superset
labels_equal(current, desired) == current = desired

service_labels_match(current, desired) ==
    \A key \in DOMAIN desired :
        key \in DOMAIN current /\ current[key] = desired[key]

extract_targets(data) ==
    {data[i].Target : i \in {j \in DOMAIN data : data[j].Target # ""}}

service_networks_match(current, desired) ==
    extract_targets(current) = extract_targets(desired)

\* a merge in which the service's own value wins
MergeKeepCurrent(current, desired) ==
    [k \in DOMAIN current \cup DOMAIN desired |->
        IF k \in DOMAIN current THEN current[k] ELSE desired[k]]

\* current.copy(); .update(desired)
MergeLabels(current, desired) ==
    [k \in DOMAIN current \cup DOMAIN desired |->
        IF k \in DOMAIN desired THEN desired[k] ELSE current[k]]

NoVersion == -1

(***************************************************************************)
(* reconcile_application up to its update_service call: what it decides    *)
(* for an application record and the service object it was handed.         *)
(***************************************************************************)
\* a reconcile_application without the return on empty desired labels
DecisionKindNoLabelCheck(service, desired_labels, desired_networks) ==
    IF ~(\/ ~service_labels_match(service.Spec.Labels, desired_labels)
         \/ ~service_networks_match(service.Spec.Networks, desired_networks)
         \/ ~service_labels_match(service.Spec.TaskTemplate.ContainerSpec.Labels,
                                  desired_labels)) THEN "aligned"
    ELSE IF service.Version = NoVersion THEN "noversion"
    ELSE "update"

\* a reconcile_application without the return on a missing version index
DecisionKindNoVersionCheck(service, desired_labels, desired_networks) ==
    IF DOMAIN desired_labels = {} THEN "nolabels"
    ELSE IF ~(\/ ~service_labels_match(service.Spec.Labels, desired_labels)
              \/ ~service_networks_match(service.Spec.Networks, desired_networks)
              \/ ~service_labels_match(service.Spec.TaskTemplate.ContainerSpec.Labels,
                                       desired_labels)) THEN "aligned"
    ELSE "update"

\* which of its four ways out reconcile_application takes
DecisionKind(service, desired_labels, desired_networks) ==
    LET current_labels == service.Spec.Labels
        current_networks == service.Spec.Networks
        container_labels == service.Spec.TaskTemplate.ContainerSpec.Labels
        needs_label_update == ~service_labels_match(current_labels, desired_labels)
        needs_network_update ==
            ~service_networks_match(current_networks, desired_networks)
        needs_container_update ==
            ~service_labels_match(container_labels, desired_labels)
    IN  IF DOMAIN desired_labels = {} THEN "nolabels"
        ELSE IF ~(\/ needs_label_update
                  \/ needs_network_update
                  \/ needs_container_update) THEN "aligned"
        ELSE IF service.Version = NoVersion THEN "noversion"
        ELSE "update"

\* a reconcile_application that gives the container spec the service's
\* merged labels
DecisionForOneMerge(service, built, desired_labels, desired_networks) ==
    [kind |-> DecisionKind(service, desired_labels, desired_networks),
     id |-> service.ID,
     version |-> service.Version,
     name |-> service.Name,
     labels |-> MergeLabels(service.Spec.Labels, desired_labels),
     task_template |->
         [service.Spec.TaskTemplate EXCEPT !.ContainerSpec.Labels =
             MergeLabels(service.Spec.Labels, desired_labels)],
     networks |-> desired_networks,
     desired_labels |-> built.labels,
     labels_changed |-> built.changed]

\* what reconcile_application submits to update_service, and what it decided
DecisionFor(service, built, desired_labels, desired_networks) ==
    [kind |-> DecisionKind(service, desired_labels, desired_networks),
     id |-> service.ID,
     version |-> service.Version,
     name |-> service.Name,
     labels |-> MergeLabels(service.Spec.Labels, desired_labels),
     task_template |->
         [service.Spec.TaskTemplate EXCEPT !.ContainerSpec.Labels =
             MergeLabels(@, desired_labels)],
     networks |-> desired_networks,
     desired_labels |-> built.labels,
     labels_changed |-> built.changed]

DecisionFrom(service, built, desired_networks) ==
    DecisionFor(service, built, PairsToMap(built.labels), desired_networks)

ReconcileDecision(application, service, traefik_network_id) ==
    DecisionFrom(service, build_desired_labels(application),
                 build_desired_networks(application, traefik_network_id))

(***************************************************************************)
(* The state.                                                              *)
(*   containers, cattrs   the engine's containers: status and attributes   *)
(*   services             the engine's services, by name                   *)
(*   events               the event stream the event loop is reading       *)
(*   cpApps               the applications the control plane holds         *)
(*   apiKey               DokployClient.api_key is set                     *)
(*   traefik_network_id   resolved at start-up ("" when unresolved)        *)
(*   cache                DokployClient._applications, ._cache_timestamp   *)
(*                        and the holder of ._lock ("" when free)          *)
(*   now                  time.time()                                      *)
(*   pc, loc              position and locals of each thread               *)
(*   handled              EventMonitor._handled                            *)
(*   cycles, extCount     counters that bound the model                    *)
(*   convLog, upd, rd     history: the engine calls each conversion made,  *)
(*                        the last update_service call of each thread,     *)
(*                        the reads and writes of the cache client, the    *)
(*                        sweep's list and the event loop's dispatches     *)
(*   stop_event           main's threading.Event, set by handle_signal     *)
(***************************************************************************)
VARIABLES containers, cattrs, services, events, cpApps, apiKey,
          traefik_network_id, cache, now, pc, loc, handled,
          cycles, extCount, convLog, upd, rd, stop_event

engineVars == <<containers, cattrs, services, events>>
clientVars == <<cpApps, apiKey, traefik_network_id, cache, now>>
threadVars == <<pc, loc, handled>>
boundVars == <<cycles, extCount>>
histVars == <<convLog, upd, rd>>
vars == <<engineVars, clientVars, threadVars, boundVars, histVars, stop_event>>

CIDs == {"c1", "c2"}
ConvProcs == {"main"} \cup CIDs
RecProcs == {"periodic"} \cup CIDs
Procs == {"main", "periodic"} \cup CIDs

LOCAL_NODE_ID == "node1"
\* config.py reads both from the environment; the model runs the daemon
\* with an interval shorter than the cache's time to live
RECONCILE_INTERVAL == 1
APPLICATION_CACHE_TTL == 2

NoLoc ==
    [cid |-> "", name |-> <<>>, list |-> <<>>, idx |-> 0, apps |-> <<>>,
     svcs |-> EmptyMap, app |-> <<>>, svc |-> <<>>, cnow |-> 0,
     payload |-> <<>>, force |-> FALSE, ret |-> "", wb |-> <<>>]

NoUpd ==
    [inv |-> <<>>, calls |-> 0, result |-> "none", kind |-> "none", wb |-> 0,
     app |-> <<>>, pre |-> <<>>, post |-> <<>>,
     same |-> TRUE, engineVersion |-> NoVersion, readAt |-> NoVersion,
     readVersion |-> EmptyMap,
     mismatches |-> 0, submitted |-> <<>>, accepted |-> <<>>,
     matching |-> {}, reconciled |-> {}]

\* the last read of the cache a thread made: the time and the timestamp its
\* refresh compared, its fetch attempts and commits, what it returned, the
\* timestamp the cache carried then and the time, the posts that had
\* succeeded when the returned snapshot was fetched (w) and the writes that
\* had returned when the read began (startW), whether snapshot and timestamp
\* were those of one commit, and whether a write's refresh was under way
NoRead ==
    [open |-> FALSE, done |-> FALSE, now |-> 0, ts |-> 0, fetches |-> 0,
     commits |-> 0, apps |-> <<>>, rts |-> 0, at |-> 0, w |-> 0, startW |-> 0,
     whole |-> TRUE, during |-> FALSE]

\* read: the read each thread is making or has just made (dropped at the
\* thread's next step); last: the snapshot and timestamp of the last commit; posted, returned: the update_application calls whose post
\* succeeded, and those of them that have returned; fetchW, cacheW: the
\* value of posted when a thread's payload, and the cache's snapshot, was
\* fetched; cp: the lists the control plane has held; http: a request has
\* been sent to the control plane; disp: the events the event loop has
\* dispatched a conversion for, in order; listed: the containers the sweep's
\* list(all=True) holds; failed: the event stream has raised;
\* late: a conversion has been dispatched while the signal was set
NoRd ==
    [read |-> [p \in RecProcs |-> NoRead],
     last |-> <<<<>>, 0>>,
     posted |-> 0, returned |-> 0, cacheW |-> 0,
     fetchW |-> [p \in RecProcs |-> 0],
     cp |-> {}, http |-> FALSE, disp |-> <<>>, listed |-> {},
     failed |-> FALSE, late |-> FALSE]

\* thread p goes to `where` with locals l; a finished thread drops its locals
Move(p, where, l) ==
    /\ pc' = [pc EXCEPT ![p] = where]
    /\ loc' = [loc EXCEPT ![p] = IF where = "done" THEN NoLoc ELSE l]

(***************************************************************************)
(* The engine (docker.APIClient) as the daemon calls it.                   *)
(***************************************************************************)
DefaultMode == [Replicated |-> [Replicas |-> 1]]

\* create_service(name, labels, task_template, mode, networks, endpoint_spec)
EngineCreateService(spec) ==
    [ID |-> spec.Name, Name |-> spec.Name,
     Spec |-> [Labels |-> spec.Labels, TaskTemplate |-> spec.TaskTemplate,
               Mode |-> spec.Mode, Networks |-> spec.Networks],
     Version |-> 1]

\* an engine that does not enforce unique service names
EngineNameFree(name) == FALSE

\* create_service is refused when the name is taken
EngineNameTaken(name) == name \in DOMAIN services

\* update_service(id, version, name, labels, task_template, networks): the
\* submitted spec replaces the stored one; networks=None submits no network,
\* no mode is submitted and the engine applies its default.  The service is
\* read back with the submitted networks under Spec.Networks, where
\* reconcile_application looks for them.
EngineUpdateService(service, d) ==
    [service EXCEPT
        !.Spec = [Labels |-> d.labels, TaskTemplate |-> d.task_template,
                  Mode |-> DefaultMode, Networks |-> d.networks],
        !.Version = @ + 1]

\* what an accepted update_service can leave behind.  reconcile_application
\* passes "desired_networks or None": with no desired network the call names
\* no network list, and the attachments the service had stay or go with the
\* engine's API version (they travel in the task template that is submitted
\* back, or in a field of their own that is left out)
EngineUpdateOutcomes(service, d) ==
    {EngineUpdateService(service, d)}
    \cup (IF d.networks = <<>>
          THEN {[EngineUpdateService(service, d) EXCEPT
                    !.Spec.Networks = service.Spec.Networks]}
          ELSE {})

\* an engine that accepts an update whatever version it names
EngineAnyVersion(name, version) == name \in DOMAIN services

\* update_service is version-guarded
EngineVersionMatches(name, version) ==
    name \in DOMAIN services /\ services[name].Version = version

\* an event reaches the daemon only while it is subscribed to the stream
Emit(evs) == IF pc["main"] = "stream" THEN events \o evs ELSE events

ContainerEvent(action, c) == [Type |-> "container", Action |-> action, id |-> c]

(***************************************************************************)
(* docker_manager.py: create_service_from_container and initial_sweep.     *)
(***************************************************************************)
\* a process_container that reconciles whatever the conversion returned
AfterConvAlways(p, service_name) == IF p = "main" THEN "sweep" ELSE "rbn"

\* a conversion that goes on to stop the container after a failed create
OnCreateErrorGoOn(p) == "stop"

\* where a conversion returns to: the sweep's loop, or process_container,
\* which reconciles the new service by name when the conversion returned one
AfterConv(p, service_name) ==
    IF p = "main" THEN "sweep"
    ELSE IF service_name # <<>> THEN "rbn"
    ELSE "done"

\* autoswarm.py (the monolith): create_service_from_container ends with
\* reconcile_service_by_name(service_name) for every caller, the initial
\* sweep included, and returns before it when no service was created
MonolithAfterConv(p, service_name) ==
    IF service_name # <<>> THEN "rbn"
    ELSE IF p = "main" THEN "sweep"
    ELSE "done"

\* except APIError around create_service: log and return ""
OnCreateError(p) == AfterConv(p, <<>>)

\* the call `op` of thread p on the container it converts, what it submitted
\* and its outcome
LoggedWith(p, op, result, submitted) ==
    convLog' = [convLog EXCEPT ![loc[p].cid] =
                   Append(@, [op |-> op, result |-> result, proc |-> p,
                              name |-> loc[p].name, spec |-> submitted,
                              same |-> services' = services])]

Logged(p, op, result) == LoggedWith(p, op, result, <<>>)

ConvGet(p) ==
    /\ pc[p] = "get"
    /\ UNCHANGED <<engineVars, clientVars, handled, boundVars, upd, rd,
                   stop_event>>
    /\ LET c == loc[p].cid IN
        IF containers[c] \in {"absent", "removed"}
        THEN /\ Move(p, AfterConv(p, <<>>), loc[p])
             /\ Logged(p, "get", "notfound")
        ELSE IF should_ignore(cattrs[c].Labels)
        THEN /\ Move(p, AfterConv(p, <<>>), loc[p])
             /\ Logged(p, "get", "ignored")
        ELSE IF is_swarm_container(cattrs[c].Labels)
        THEN /\ Move(p, AfterConv(p, <<>>), loc[p])
             /\ Logged(p, "get", "swarm")
        ELSE /\ Move(p, "create",
                     [loc[p] EXCEPT !.name =
                         build_service_spec(cattrs[c], LOCAL_NODE_ID).Name])
             /\ Logged(p, "get", "ok")

ConvCreate(p) ==
    /\ pc[p] = "create"
    /\ UNCHANGED <<containers, cattrs, events, clientVars, handled, boundVars, upd, rd,
                   stop_event>>
    /\ LET spec == build_service_spec(cattrs[loc[p].cid], LOCAL_NODE_ID) IN
        \/ /\ ~EngineNameTaken(spec.Name)
           /\ services' = services @@ (spec.Name :> EngineCreateService(spec))
           /\ LoggedWith(p, "create", "ok", <<spec>>)
           /\ Move(p, "stop", loc[p])
        \/ /\ EngineNameTaken(spec.Name)
           /\ services' = services
           /\ LoggedWith(p, "create", "exists", <<spec>>)
           /\ Move(p, OnCreateError(p), loc[p])
        \/ /\ services' = services
           /\ LoggedWith(p, "create", "error", <<spec>>)
           /\ Move(p, OnCreateError(p), loc[p])

\* container.stop(timeout=5), APIError logged
ConvStop(p) ==
    /\ pc[p] = "stop"
    /\ UNCHANGED <<cattrs, services, clientVars, handled, boundVars, upd, rd,
                   stop_event>>
    /\ LET c == loc[p].cid IN
        \/ /\ containers[c] \in {"running", "exited"}
           /\ containers' = [containers EXCEPT ![c] = "exited"]
           /\ events' = IF containers[c] = "running"
                        THEN Emit(<<ContainerEvent("die", c)>>) ELSE events
           /\ Logged(p, "stop", "ok")
        \/ /\ UNCHANGED <<containers, events>>
           /\ Logged(p, "stop", "error")
    /\ Move(p, "remove", loc[p])

\* container.remove(), APIError logged; a running container is not removed
ConvRemove(p) ==
    /\ pc[p] = "remove"
    /\ UNCHANGED <<cattrs, services, events, clientVars, handled, boundVars, upd, rd,
                   stop_event>>
    /\ LET c == loc[p].cid IN
        \/ /\ containers[c] = "exited"
           /\ containers' = [containers EXCEPT ![c] = "removed"]
           /\ Logged(p, "remove", "ok")
        \/ /\ containers' = containers
           /\ Logged(p, "remove", "error")
    /\ Move(p, AfterConv(p, loc[p].name), loc[p])

\* a list without all=True: the running containers only
ListedRunning(status) == status = "running"

\* what containers.list(all=True) holds: running and stopped containers
Listed(status) == status \in {"running", "exited"}

\* client.containers.list(all=True)
SweepList ==
    /\ pc["main"] = "sweep_list"
    /\ Move("main", "sweep",
            [loc["main"] EXCEPT
                !.list = SetToSeq({c \in CIDs : Listed(containers[c])}),
                !.idx = 1])
    /\ rd' = [rd EXCEPT !.listed =
                         {c \in CIDs : containers[c] \in {"running", "exited"}}]
    /\ UNCHANGED <<engineVars, clientVars, handled, boundVars, convLog, upd,
                   stop_event>>

SweepNext ==
    /\ pc["main"] = "sweep"
    /\ LET l == loc["main"] IN
        IF l.idx > Len(l.list)
        THEN Move("main", "start", NoLoc)
        ELSE LET c == l.list[l.idx] IN
             IF is_swarm_container(cattrs[c].Labels) \/ should_ignore(cattrs[c].Labels)
             THEN Move("main", "sweep", [l EXCEPT !.idx = @ + 1])
             ELSE Move("main", "get", [l EXCEPT !.idx = @ + 1, !.cid = c, !.name = <<>>])
    /\ UNCHANGED <<engineVars, clientVars, handled, boundVars, histVars,
                   stop_event>>

(***************************************************************************)
(* main: after the sweep, start the periodic thread and run the event loop *)
(***************************************************************************)
StartLoops ==
    /\ pc["main"] = "start"
    /\ pc' = [pc EXCEPT !["main"] = IF stop_event THEN "stopped" ELSE "stream",
                         !["periodic"] = "cycle"]
    /\ UNCHANGED <<engineVars, clientVars, loc, handled, boundVars, histVars,
                   stop_event>>

(***************************************************************************)
(* event_monitor.py: EventMonitor.event_loop                               *)
(***************************************************************************)
EventWanted(event) ==
    /\ event.Type = "container"
    /\ event.Action \in {"create", "start"}
    /\ event.id # ""

\* "if stop_event.is_set(): break", which ends the "while not
\* stop_event.is_set()" around it
StopSeen(set) == set

\* an event loop that keeps no set of handled ids
HandledNever(container_id) == FALSE

\* "container_id in self._handled"
Handled(container_id) == container_id \in handled

EventNext ==
    /\ pc["main"] = "stream"
    /\ events # <<>>
    /\ LET event == Head(events) IN
        /\ events' = Tail(events)
        /\ IF StopSeen(stop_event)
           THEN /\ pc' = [pc EXCEPT !["main"] = "stopped"]
                /\ UNCHANGED <<handled, loc, rd>>
           ELSE IF EventWanted(event) /\ ~Handled(event.id)
           THEN /\ handled' = handled \cup {event.id}
                /\ pc' = [pc EXCEPT ![event.id] = "get"]
                /\ loc' = [loc EXCEPT ![event.id] = [NoLoc EXCEPT !.cid = event.id]]
                /\ rd' = [rd EXCEPT !.disp = Append(@, event),
                                    !.late = @ \/ stop_event]
           ELSE UNCHANGED <<handled, pc, loc, rd>>
    /\ UNCHANGED <<containers, cattrs, services, clientVars, boundVars,
                   convLog, upd, stop_event>>

\* the stream raises (the connection to the engine is lost): the events it
\* had not delivered are gone, the loop logs the error and sleeps
StreamError ==
    /\ pc["main"] = "stream"
    /\ pc' = [pc EXCEPT !["main"] = "resubscribe"]
    /\ events' = <<>>
    /\ rd' = [rd EXCEPT !.failed = TRUE]
    /\ UNCHANGED <<containers, cattrs, services, clientVars, loc, handled,
                   boundVars, convLog, upd, stop_event>>

\* the next turn of "while not stop_event.is_set()": api.events() again
Resubscribe ==
    /\ pc["main"] = "resubscribe"
    /\ pc' = [pc EXCEPT !["main"] = IF stop_event THEN "stopped" ELSE "stream"]
    /\ UNCHANGED <<engineVars, clientVars, loc, handled, boundVars, histVars,
                   stop_event>>

(***************************************************************************)
(* The node: a container is created and started (docker run); another      *)
(* client updates a service.                                               *)
(***************************************************************************)
ContainerRun(c) ==
    /\ containers[c] = "absent"
    /\ containers' = [containers EXCEPT ![c] = "running"]
    /\ events' = Emit(<<ContainerEvent("create", c),
                        [Type |-> "network", Action |-> "connect", id |-> "bridge"],
                        ContainerEvent("start", c)>>)
    /\ UNCHANGED <<cattrs, services, clientVars, threadVars, boundVars, histVars,
                   stop_event>>

\* docker start of a stopped container that was not removed
ContainerStart(c) ==
    /\ containers[c] = "exited"
    /\ containers' = [containers EXCEPT ![c] = "running"]
    /\ events' = Emit(<<ContainerEvent("start", c)>>)
    /\ UNCHANGED <<cattrs, services, clientVars, threadVars, boundVars, histVars,
                   stop_event>>

\* docker service update by another client: the version advances
ExternalUpdate(n) ==
    /\ extCount < MaxExternal
    /\ n \in DOMAIN services
    /\ services[n].Version # NoVersion
    /\ extCount' = extCount + 1
    /\ services' = [services EXCEPT ![n].Version = @ + 1,
                                    ![n].Spec.Networks = <<>>]
    /\ UNCHANGED <<containers, cattrs, events, clientVars, threadVars,
                   cycles, histVars, stop_event>>

(***************************************************************************)
(* dokploy_client.py                                                       *)
(***************************************************************************)
\* a client that takes itself for enabled without an API key
AlwaysEnabled == TRUE

is_enabled == apiKey

\* a refresh that fetches whatever the age of the snapshot
CacheFreshNever(force, t, ts) == FALSE

\* "if not force and (now - self._cache_timestamp) < APPLICATION_CACHE_TTL"
CacheFresh(force, t, ts) == ~force /\ (t - ts) < APPLICATION_CACHE_TTL

\* a client whose blocks do not wait for the lock
AcquireAnyway(p) == TRUE

\* "with self._lock": entered when no thread holds the lock
Acquire(p) == cache.lock = ""

\* a read by thread p begins
ReadOpens(p) ==
    rd' = [rd EXCEPT !.read[p] = [NoRead EXCEPT !.open = TRUE,
                                                !.startW = rd.returned]]

\* thread p's refresh has compared the timestamp and made n fetch attempts
Compared(r, p, n) ==
    IF loc[p].force THEN [r EXCEPT !.http = @ \/ n > 0]
    ELSE [r EXCEPT !.read[p].now = now, !.read[p].ts = cache.ts,
                   !.read[p].fetches = @ + n, !.http = @ \/ n > 0]

\* update_application returns when its forced refresh does
Returned(r, p) == IF loc[p].force THEN [r EXCEPT !.returned = @ + 1] ELSE r

\* _refresh_cache up to the response of project.all: now is read, the
\* timestamp is compared without the lock, and the fetch succeeds or fails
RefreshFetch(p) ==
    /\ pc[p] = "refresh"
    /\ IF ~is_enabled
       THEN /\ Move(p, loc[p].ret, loc[p])
            /\ rd' = rd
       ELSE IF CacheFresh(loc[p].force, now, cache.ts)
       THEN /\ Move(p, loc[p].ret, loc[p])
            /\ rd' = Compared(rd, p, 0)
       ELSE \/ /\ Move(p, "commit", [loc[p] EXCEPT !.cnow = now, !.payload = cpApps])
               /\ rd' = [Compared(rd, p, 1) EXCEPT !.fetchW[p] = rd.posted]
            \/ /\ Move(p, loc[p].ret, loc[p])
               /\ rd' = Returned(Compared(rd, p, 1), p)
    /\ UNCHANGED <<engineVars, clientVars, handled, boundVars, convLog, upd,
                   stop_event>>

\* with self._lock: self._applications = applications
RefreshCommit(p) ==
    /\ pc[p] = "commit"
    /\ Acquire(p)
    /\ cache' = [cache EXCEPT !.apps = loc[p].payload, !.lock = p]
    /\ rd' = [rd EXCEPT !.last = <<loc[p].payload, loc[p].cnow>>,
                        !.cacheW = rd.fetchW[p],
                        !.read[p].commits = IF loc[p].force THEN @ ELSE @ + 1]
    /\ Move(p, "commit_ts", loc[p])
    /\ UNCHANGED <<engineVars, cpApps, apiKey, traefik_network_id, now,
                   handled, boundVars, convLog, upd, stop_event>>

\* self._cache_timestamp = now, and the lock is released
RefreshCommitTs(p) ==
    /\ pc[p] = "commit_ts"
    /\ cache' = [cache EXCEPT !.ts = loc[p].cnow, !.lock = ""]
    /\ rd' = Returned(rd, p)
    /\ Move(p, loc[p].ret, [loc[p] EXCEPT !.payload = <<>>, !.cnow = 0])
    /\ UNCHANGED <<engineVars, cpApps, apiKey, traefik_network_id, now,
                   handled, boundVars, convLog, upd, stop_event>>

\* the step after a read: its record is dropped
ReadOver(p) == rd' = [rd EXCEPT !.read[p] = NoRead]

\* the read of thread p returns what the cache holds
ReadDone(p) ==
    rd' = [rd EXCEPT !.read[p] =
              [@ EXCEPT !.open = FALSE, !.done = TRUE,
                        !.apps = cache.apps, !.rts = cache.ts, !.at = now,
                        !.w = rd.cacheW,
                        !.whole = (<<cache.apps, cache.ts>> = rd.last
                                   /\ cache.apps \in rd.cp \cup {<<>>}),
                        !.during = \E q \in RecProcs \ {p} :
                                      /\ loc[q].force
                                      /\ pc[q] \in {"refresh", "commit", "commit_ts"}]]

\* list_applications after its refresh: a deep copy of the snapshot, made
\* with the lock held
CopyList(p) ==
    /\ pc[p] = "copy_list"
    /\ Acquire(p)
    /\ ReadDone(p)
    /\ Move(p, "list_services", [loc[p] EXCEPT !.apps = cache.apps])
    /\ UNCHANGED <<engineVars, clientVars, handled, boundVars, convLog, upd,
                   stop_event>>

\* time.time() advances
Tick ==
    /\ now < MaxNow
    /\ now' = now + 1
    /\ UNCHANGED <<engineVars, cpApps, apiKey, traefik_network_id, cache,
                   threadVars, boundVars, histVars, stop_event>>

FindByAppName(apps, app_name) ==
    LET hits == {i \in DOMAIN apps : apps[i].appName = app_name}
    IN  IF hits = {} THEN <<>>
        ELSE <<apps[CHOOSE i \in hits : \A j \in hits : i <= j]>>

\* the application.update?batch=1 post, as the control plane applies it
ControlPlaneUpdate(apps, wb) ==
    [i \in DOMAIN apps |->
        IF apps[i].applicationId = wb.application_id
        THEN [apps[i] EXCEPT !.labelsSwarm = wb.labels,
                             !.networkSwarm = wb.networks]
        ELSE apps[i]]

(***************************************************************************)
(* reconciler.py: reconcile_application from the update_service call on,   *)
(* reconcile_service_by_name and reconcile_all.                            *)
(***************************************************************************)
\* where reconcile_application returns to
AfterReconcile(p) == IF p = "periodic" THEN "iter" ELSE "done"

\* a periodic loop that an exception of its callback ends
AfterRaiseUnwind(p) == "done"

\* where an exception that reconcile_application lets through arrives:
\* reconcile_all does not catch it, ReconciliationLoop.run logs it and waits
\* for the next cycle; the task of process_container ends
AfterRaise(p) == IF p = "periodic" THEN "wait" ELSE "done"

\* a reconcile that writes back although update_service failed
OnUpdateErrorWriteBack(p, application, d) ==
    [next |-> "writeback",
     wb |-> <<[application_id |-> application.applicationId,
               labels |-> d.desired_labels,
               networks |-> application.networkSwarm]>>]

\* except APIError around update_service: log and return
OnUpdateError(p, application, d) == [next |-> AfterReconcile(p), wb |-> <<>>]

\* a reconcile that writes back after every successful update
OnUpdateOkAlways(p, application, d) ==
    [next |-> "writeback",
     wb |-> <<[application_id |-> application.applicationId,
               labels |-> d.desired_labels,
               networks |-> application.networkSwarm]>>]

\* after a successful update: write back when a host rule was rewritten
OnUpdateOk(p, application, d) ==
    IF d.labels_changed
    THEN [next |-> "writeback",
          wb |-> <<[application_id |-> application.applicationId,
                    labels |-> d.desired_labels,
                    networks |-> application.networkSwarm]>>]
    ELSE [next |-> AfterReconcile(p), wb |-> <<>>]

\* the invocation p is in: the cycle and the position in its list
Invocation(p) == IF p = "periodic" THEN <<cycles, loc[p].idx>> ELSE <<0, 0>>

\* the record of the invocation's outcome
UpdRecord(p, application, service, d, result) ==
    [inv |-> Invocation(p),
     calls |-> (IF upd[p].inv = Invocation(p) THEN upd[p].calls ELSE 0)
               + (IF result = "none" THEN 0 ELSE 1),
     result |-> result, kind |-> d.kind,
     wb |-> IF upd[p].inv = Invocation(p) THEN upd[p].wb ELSE 0,
     app |-> <<application>>, pre |-> <<service>>,
     post |-> IF service.Name \in DOMAIN services'
              THEN <<services'[service.Name]>> ELSE <<>>,
     same |-> services' = services,
     engineVersion |-> IF service.Name \in DOMAIN services
                       THEN services[service.Name].Version ELSE NoVersion,
     readAt |-> Get(upd[p].readVersion, service.Name, NoVersion),
     readVersion |-> upd[p].readVersion,
     mismatches |-> upd[p].mismatches + (IF result = "mismatch" THEN 1 ELSE 0),
     submitted |-> IF result = "none" THEN <<>>
                   ELSE <<[labels |-> d.labels, task_template |-> d.task_template,
                           networks |-> d.networks]>>,
     accepted |-> upd[p].accepted
                  \o (IF result = "ok" THEN <<<<service.Name, d.version>>>> ELSE <<>>),
     matching |-> upd[p].matching,
     reconciled |-> upd[p].reconciled \cup {application.applicationId}]

ReconcileReturn(p, result, out, record) ==
    /\ upd' = [upd EXCEPT ![p] = record]
    /\ Move(p, out.next,
            IF out.next = "wait" THEN NoLoc
            ELSE [loc[p] EXCEPT !.wb = out.wb,
                                !.idx = IF p = "periodic" THEN @ + 1 ELSE @])

ReconcileApply(p, application, service, d) ==
    IF d.kind # "update"
    THEN /\ services' = services
         /\ ReconcileReturn(p, "none", [next |-> AfterReconcile(p), wb |-> <<>>],
                            UpdRecord(p, application, service, d, "none"))
    ELSE \/ /\ EngineVersionMatches(service.Name, d.version)
            /\ \E outcome \in EngineUpdateOutcomes(services[service.Name], d) :
                  services' = [services EXCEPT ![service.Name] = outcome]
            /\ ReconcileReturn(p, "ok", OnUpdateOk(p, application, d),
                               UpdRecord(p, application, service, d, "ok"))
         \/ /\ ~EngineVersionMatches(service.Name, d.version)
            /\ services' = services
            /\ ReconcileReturn(p, "mismatch", OnUpdateError(p, application, d),
                               UpdRecord(p, application, service, d, "mismatch"))
         \/ /\ services' = services
            /\ ReconcileReturn(p, "error", OnUpdateError(p, application, d),
                               UpdRecord(p, application, service, d, "error"))
         \* the call raises something that is no APIError (the engine's
         \* socket is gone): reconcile_application lets it through
         \/ /\ services' = services
            /\ ReconcileReturn(p, "raised", [next |-> AfterRaise(p), wb |-> <<>>],
                               UpdRecord(p, application, service, d, "raised"))

ReconcileApplication(p, application, service) ==
    ReconcileApply(p, application, service,
                   ReconcileDecision(application, service, traefik_network_id))

\* reconcile_all up to list_applications
ReconcileAllBegin ==
    /\ pc["periodic"] = "cycle"
    /\ ~stop_event
    /\ cycles < MaxCycles
    /\ cycles' = cycles + 1
    /\ IF ~is_enabled
       THEN /\ Move("periodic", "wait", loc["periodic"])
            /\ rd' = rd
       ELSE /\ Move("periodic", "refresh",
                    [loc["periodic"] EXCEPT !.ret = "copy_list", !.force = FALSE])
            /\ ReadOpens("periodic")
    /\ UNCHANGED <<engineVars, clientVars, handled, extCount, convLog, upd,
                   stop_event>>

\* the versions the engine holds when thread p reads its services
ReadVersions(p) ==
    upd' = [upd EXCEPT ![p].readVersion =
               [n \in DOMAIN services |-> services[n].Version]]

\* the applications of a list that carry a name some service carries
Matching(applications, svcs) ==
    {applications[i].applicationId : i \in
        {j \in DOMAIN applications :
            /\ applications[j].appName # <<>>
            /\ applications[j].appName \in DOMAIN svcs}}

\* a cycle of reconcile_all has its two lists: the versions read, the pairs
\* to reconcile, and none reconciled yet
CycleBegins ==
    upd' = [upd EXCEPT
               !["periodic"].readVersion =
                   [n \in DOMAIN services |-> services[n].Version],
               !["periodic"].matching = Matching(loc["periodic"].apps, services),
               !["periodic"].reconciled = {}]

\* a reconcile_all that keeps the service object of its previous cycle
ListServicesOnce ==
    /\ pc["periodic"] = "list_services"
    /\ Move("periodic", "iter",
            [loc["periodic"] EXCEPT
                !.svcs = IF upd["periodic"].pre = <<>> THEN services
                         ELSE (upd["periodic"].pre[1].Name :> upd["periodic"].pre[1]),
                !.idx = 1])
    /\ CycleBegins
    /\ ReadOver("periodic")
    /\ UNCHANGED <<engineVars, clientVars, handled, boundVars, convLog,
                   stop_event>>

\* client.services.list()
ListServices ==
    /\ pc["periodic"] = "list_services"
    /\ Move("periodic", "iter",
            [loc["periodic"] EXCEPT !.svcs = services, !.idx = 1])
    /\ CycleBegins
    /\ ReadOver("periodic")
    /\ UNCHANGED <<engineVars, clientVars, handled, boundVars, convLog,
                   stop_event>>

\* one turn of "for application in applications"
ReconcileAllIter ==
    /\ pc["periodic"] = "iter"
    /\ UNCHANGED <<containers, cattrs, events, clientVars, handled, boundVars,
                   convLog, rd, stop_event>>
    /\ LET l == loc["periodic"] IN
        IF l.idx > Len(l.apps)
        THEN /\ Move("periodic", "wait", NoLoc)
             /\ UNCHANGED <<services, upd>>
        ELSE LET application == l.apps[l.idx] IN
             IF application.appName = <<>>
                \/ application.appName \notin DOMAIN l.svcs
             THEN /\ Move("periodic", "iter", [l EXCEPT !.idx = @ + 1])
                  /\ UNCHANGED <<services, upd>>
             ELSE ReconcileApplication("periodic", application,
                                       l.svcs[application.appName])

\* a wait that lasts the interval whether or not the signal is set
WaitedWhole(set) == RECONCILE_INTERVAL

\* the time stop_event.wait(interval) takes: none when the event is set
Waited(set) == IF set THEN 0 ELSE RECONCILE_INTERVAL

\* ReconciliationLoop.run: "while not stop_event.is_set()" finds the event set
PeriodicExit ==
    /\ pc["periodic"] = "cycle"
    /\ stop_event
    /\ pc' = [pc EXCEPT !["periodic"] = "stopped"]
    /\ UNCHANGED <<engineVars, clientVars, loc, handled, boundVars, histVars,
                   stop_event>>

\* main: handle_signal on SIGINT or SIGTERM
Cancel ==
    /\ ~stop_event
    /\ stop_event' = TRUE
    /\ UNCHANGED <<engineVars, clientVars, threadVars, boundVars, histVars>>

\* ReconciliationLoop.run: stop_event.wait(interval), then the next cycle
PeriodicWait ==
    /\ pc["periodic"] = "wait"
    /\ stop_event \/ cycles < MaxCycles
    /\ now' = now + Waited(stop_event)
    /\ pc' = [pc EXCEPT !["periodic"] = "cycle"]
    /\ UNCHANGED <<engineVars, cpApps, apiKey, traefik_network_id, cache,
                   loc, handled, boundVars, histVars, stop_event>>

\* an update_application that refreshes the cache although its post failed
OnPostErrorRefresh(p) == "refresh"

\* except Exception around the post of update_application: log and return
OnPostError(p) == AfterReconcile(p)

\* update_application, up to its forced refresh
WriteBack(p) ==
    /\ pc[p] = "writeback"
    /\ upd' = [upd EXCEPT ![p].wb = @ + 1]
    /\ IF ~is_enabled
       THEN /\ Move(p, AfterReconcile(p), [loc[p] EXCEPT !.wb = <<>>])
            /\ cpApps' = cpApps
            /\ rd' = rd
       ELSE \/ /\ cpApps' = ControlPlaneUpdate(cpApps, loc[p].wb[1])
               /\ rd' = [rd EXCEPT !.posted = @ + 1, !.cp = @ \cup {cpApps'},
                                   !.http = TRUE]
               /\ Move(p, "refresh",
                       [loc[p] EXCEPT !.wb = <<>>, !.force = TRUE,
                                      !.ret = AfterReconcile(p)])
            \/ /\ cpApps' = cpApps
               /\ rd' = [rd EXCEPT !.http = TRUE]
               /\ Move(p, OnPostError(p), [loc[p] EXCEPT !.wb = <<>>])
    /\ UNCHANGED <<engineVars, apiKey, traefik_network_id, cache, now, handled,
                   boundVars, convLog, stop_event>>

\* reconcile_service_by_name up to find_application_by_appname's refresh
ByNameBegin(p) ==
    /\ pc[p] = "rbn"
    /\ IF ~is_enabled
       THEN /\ Move(p, "done", loc[p])
            /\ rd' = rd
       ELSE /\ Move(p, "refresh", [loc[p] EXCEPT !.ret = "copy_find", !.force = FALSE])
            /\ ReadOpens(p)
    /\ UNCHANGED <<engineVars, clientVars, handled, boundVars, convLog, upd,
                   stop_event>>

\* find_application_by_appname after its refresh
ByNameFind(p) ==
    /\ pc[p] = "copy_find"
    /\ Acquire(p)
    /\ ReadDone(p)
    /\ LET found == FindByAppName(cache.apps, loc[p].name) IN
        Move(p, IF found = <<>> THEN "done" ELSE "rbn_get",
             [loc[p] EXCEPT !.app = found])
    /\ UNCHANGED <<engineVars, clientVars, handled, boundVars, convLog, upd,
                   stop_event>>

\* client.services.get(service_name)
ByNameGet(p) ==
    /\ pc[p] = "rbn_get"
    /\ IF loc[p].name \notin DOMAIN services
       THEN /\ Move(p, "done", loc[p])
            /\ upd' = upd
       ELSE /\ Move(p, "rbn_apply", [loc[p] EXCEPT !.svc = <<services[loc[p].name]>>])
            /\ ReadVersions(p)
    /\ ReadOver(p)
    /\ UNCHANGED <<engineVars, clientVars, handled, boundVars, convLog,
                   stop_event>>

ByNameApply(p) ==
    /\ pc[p] = "rbn_apply"
    /\ ReconcileApplication(p, loc[p].app[1], loc[p].svc[1])
    /\ UNCHANGED <<containers, cattrs, events, clientVars, handled, boundVars,
                   convLog, rd, stop_event>>

(***************************************************************************)
(* The scenario: two containers whose names derive the same service name,  *)
(* an application of that name whose Host rule names an old host, and      *)
(* possibly a service of that name made by an operator.                    *)
(***************************************************************************)
WebName == <<"w", "e", "b">>
RuleKey == <<"traefik", "http", "routers", "web", "rule">>
PortKey == <<"traefik", "port">>

WebApp ==
    [applicationId |-> "app1", appName |-> WebName,
     labelsSwarm |-> <<<<RuleKey, HostRule("old")>>, <<PortKey, Lit(<<"8", "0">>)>>>>,
     networkSwarm |-> <<[Target |-> "anet", Aliases |-> "None"]>>,
     domains |-> <<[host |-> "new", domainType |-> "application",
                    createdAt |-> 2, uniqueConfigKey |-> 0]>>]

OperatorService ==
    [ID |-> "op1", Name |-> WebName,
     Spec |-> [Labels |-> (PortKey :> Lit(<<"8", "1">>)),
               TaskTemplate |-> [ContainerSpec |-> [Image |-> "nginx", Mounts |-> <<>>,
                                                    Labels |-> EmptyMap],
                                 Placement |-> {}],
               Mode |-> DefaultMode,
               Networks |-> <<>>],
     Version |-> 1]

BindMount ==
    [Destination |-> <<"data">>, Source |-> <<"srv", "web">>, Type |-> "bind",
     RW |-> TRUE]

ContainerAttrs(id, name, labels, mounts) ==
    [Id |-> id, Name |-> name, Image |-> "nginx", Labels |-> labels,
     Networks |-> {"bridge"}, Mounts |-> mounts]

C2Labels ==
    {EmptyMap,
     (IGNORED_LABEL :> <<"T", "r", "u", "e">>),
     (MANAGED_LABEL :> TrueText),
     (<<"com", "docker", "swarm", "task">> :> <<"t", "1">>)}

InitThreads ==
    /\ pc = [p \in Procs |-> IF p = "main" THEN "sweep_list" ELSE "unstarted"]
    /\ loc = [p \in Procs |-> NoLoc]
    /\ handled = {}
    /\ cycles = 0
    /\ extCount = 0
    /\ events = <<>>
    /\ convLog = [c \in CIDs |-> <<>>]
    /\ upd = [p \in RecProcs |-> NoUpd]
    /\ cache = [apps |-> <<>>, ts |-> 0, lock |-> ""]
    /\ now = APPLICATION_CACHE_TTL
    /\ stop_event = FALSE

Init ==
    /\ InitThreads
    /\ \E l2 \in C2Labels :
          cattrs = ("c1" :> ContainerAttrs(<<"a", "1">>, <<"/", "W", "e", "b">>,
                                           (IGNORED_LABEL :> FalseText), <<BindMount>>))
                   @@ ("c2" :> ContainerAttrs(<<"b", "1">>, <<"/", "w", "e", "b">>,
                                              l2, <<>>))
    /\ \E s2 \in {"absent", "running"} :
          containers = ("c1" :> "absent") @@ ("c2" :> s2)
    /\ services \in {EmptyMap, (WebName :> OperatorService)}
    /\ cpApps = <<WebApp>>
    /\ apiKey \in BOOLEAN
    /\ traefik_network_id = "tnet"
    /\ rd = [NoRd EXCEPT !.cp = {cpApps}]

Conversion ==
    \E p \in ConvProcs : ConvGet(p) \/ ConvCreate(p) \/ ConvStop(p) \/ ConvRemove(p)

EventLoop == EventNext \/ StreamError \/ Resubscribe

MainThread == SweepList \/ SweepNext \/ StartLoops \/ EventLoop

Node ==
    \/ \E c \in CIDs : ContainerRun(c)
    \/ \E c \in CIDs : ContainerStart(c)
    \/ \E n \in DOMAIN services : ExternalUpdate(n)

CacheClient(procs) ==
    \E p \in procs :
        RefreshFetch(p) \/ RefreshCommit(p) \/ RefreshCommitTs(p) \/ WriteBack(p)

Periodic ==
    ReconcileAllBegin \/ CopyList("periodic") \/ ListServices
    \/ ReconcileAllIter \/ PeriodicWait

ByName ==
    \E p \in CIDs : ByNameBegin(p) \/ ByNameFind(p) \/ ByNameGet(p) \/ ByNameApply(p)

\* the whole daemon; the specifications below each schedule a part of it
Next ==
    \/ Cancel \/ PeriodicExit
    \/ Conversion \/ MainThread \/ Node \/ CacheClient(RecProcs) \/ Periodic
    \/ ByName \/ Tick

Spec == Init /\ [][Next]_vars

(***************************************************************************)
(* The daemon's conversion side: the sweep, the event loop and the tasks   *)
(* it starts (process_container), with the periodic thread never scheduled.*)
(***************************************************************************)
NextConv == Conversion \/ MainThread \/ Node \/ CacheClient(CIDs) \/ ByName

SpecConv == Init /\ [][NextConv]_vars

(***************************************************************************)
(* The daemon's periodic side: reconcile_all every RECONCILE_INTERVAL over *)
(* one application and the service of its name, both drawn from the cases  *)
(* reconcile_application tells apart, while another client may update the  *)
(* service.  No container exists.                                          *)
(***************************************************************************)
\* what create_service_from_container leaves for container c2
ManagedService ==
    EngineCreateService(
        build_service_spec(ContainerAttrs(<<"b", "1">>, <<"/", "w", "e", "b">>,
                                          EmptyMap, <<>>), LOCAL_NODE_ID))

RecServices ==
    {OperatorService,
     ManagedService,
     [ManagedService EXCEPT !.Version = NoVersion],
     [ManagedService EXCEPT
         !.Spec.Networks = <<[Target |-> "lnet"], [Target |-> "anet"]>>,
         !.Spec.Labels = @ @@ (RuleKey :> HostRule("new"))]}

RecApps ==
    {WebApp,
     [WebApp EXCEPT !.labelsSwarm = <<>>],
     [WebApp EXCEPT !.domains = <<>>, !.networkSwarm = <<>>],
     [WebApp EXCEPT
         !.labelsSwarm = <<<<PortKey, Lit(<<"8", "0">>)>>,
                           <<RuleKey, <<[t |-> "Path", a |-> <<"/">>],
                                        [t |-> "Host", a |-> <<"new">>]>>>>>>,
         !.networkSwarm = <<[Target |-> "", Aliases |-> "None"],
                            [Target |-> "tnet", Aliases |-> "None"]>>,
         !.domains = <<[host |-> "old", domainType |-> "compose",
                        createdAt |-> 3, uniqueConfigKey |-> 0],
                       [host |-> "new", domainType |-> "application",
                        createdAt |-> 0, uniqueConfigKey |-> 1],
                       [host |-> "old", domainType |-> "application",
                        createdAt |-> 0, uniqueConfigKey |-> 0]>>]}

\* an application whose name no service carries, and one without a name
OtherApps ==
    <<[WebApp EXCEPT !.applicationId = "app2", !.appName = <<"d", "b">>],
      [WebApp EXCEPT !.applicationId = "app3", !.appName = <<>>]>>

\* a second service, of the name of the first of OtherApps
DbService == [ManagedService EXCEPT !.ID = "db1", !.Name = <<"d", "b">>]

InitRec ==
    /\ pc = [p \in Procs |-> IF p = "main" THEN "stream"
                             ELSE IF p = "periodic" THEN "cycle" ELSE "unstarted"]
    /\ loc = [p \in Procs |-> NoLoc]
    /\ handled = {}
    /\ cycles = 0
    /\ extCount = 0
    /\ events = <<>>
    /\ convLog = [c \in CIDs |-> <<>>]
    /\ upd = [p \in RecProcs |-> NoUpd]
    /\ cache = [apps |-> <<>>, ts |-> 0, lock |-> ""]
    /\ now = APPLICATION_CACHE_TTL
    /\ stop_event = FALSE
    /\ cattrs = [c \in CIDs |-> ContainerAttrs(<<c>>, <<"/", c>>, EmptyMap, <<>>)]
    /\ containers = [c \in CIDs |-> "absent"]
    /\ \E service \in RecServices, others \in {EmptyMap, (DbService.Name :> DbService)} :
          services = (WebName :> service) @@ others
    /\ \E application \in RecApps : cpApps = OtherApps \o <<application>>
    /\ apiKey \in BOOLEAN
    /\ traefik_network_id \in {"", "tnet"}
    /\ rd = [NoRd EXCEPT !.cp = {cpApps}]

NextRec ==
    \/ Periodic
    \/ CacheClient({"periodic"})
    \/ \E n \in DOMAIN services : ExternalUpdate(n)

SpecRec == InitRec /\ [][NextRec]_vars

(***************************************************************************)
(* The two loops as threads that are scheduled: stop_event.wait(interval)  *)
(* returns when the interval has passed and run() calls reconcile_all      *)
(* again; time.sleep(3) returns and event_loop calls api.events() again.   *)
(* No container is run: the event loop blocks on its stream, which may     *)
(* raise at any time.  The engine holds two services, each with an         *)
(* application of its name that asks for an update, and no other client    *)
(* updates them.                                                           *)
(***************************************************************************)
InitLoops ==
    /\ InitRec
    /\ services = (WebName :> ManagedService) @@ (DbService.Name :> DbService)
    /\ cpApps = OtherApps \o <<WebApp>>
    /\ apiKey
    /\ traefik_network_id = "tnet"

NextLoops == Periodic \/ CacheClient({"periodic"}) \/ StreamError \/ Resubscribe

SpecLoops ==
    /\ InitLoops
    /\ [][NextLoops]_vars
    /\ WF_vars(PeriodicWait)
    /\ WF_vars(ReconcileAllBegin)
    /\ WF_vars(Resubscribe)

(***************************************************************************)
(* The daemon after start-up with both loops running: container c1 is run, *)
(* the event loop starts its task, and the task's reconcile by name meets  *)
(* the periodic reconcile on the service of the same name.  Container c2   *)
(* was running before the event loop subscribed and is left alone, and no  *)
(* other client updates the service.                                       *)
(***************************************************************************)
InitRace ==
    /\ pc = [p \in Procs |-> IF p = "main" THEN "stream"
                             ELSE IF p = "periodic" THEN "cycle" ELSE "unstarted"]
    /\ loc = [p \in Procs |-> NoLoc]
    /\ handled = {}
    /\ cycles = 0
    /\ extCount = 0
    /\ events = <<>>
    /\ convLog = [c \in CIDs |-> <<>>]
    /\ upd = [p \in RecProcs |-> NoUpd]
    /\ cache = [apps |-> <<>>, ts |-> 0, lock |-> ""]
    /\ now = APPLICATION_CACHE_TTL
    /\ stop_event = FALSE
    /\ cattrs = ("c1" :> ContainerAttrs(<<"a", "1">>, <<"/", "W", "e", "b">>,
                                        (IGNORED_LABEL :> FalseText), <<BindMount>>))
                @@ ("c2" :> ContainerAttrs(<<"b", "1">>, <<"/", "w", "e", "b">>,
                                           EmptyMap, <<>>))
    /\ containers = ("c1" :> "absent") @@ ("c2" :> "running")
    /\ services \in {EmptyMap, (WebName :> OperatorService)}
    /\ cpApps = <<WebApp>>
    /\ apiKey \in BOOLEAN
    /\ traefik_network_id = "tnet"
    /\ rd = [NoRd EXCEPT !.cp = {cpApps}]

NextRace ==
    \/ Conversion \/ EventNext \/ (\E c \in CIDs : ContainerRun(c))
    \/ CacheClient(RecProcs) \/ Periodic \/ ByName

SpecRace == InitRace /\ [][NextRace]_vars

(***************************************************************************)
(* The cache client under its two callers while time passes: container c1  *)
(* has been converted and its task is about to reconcile its service by    *)
(* name (find_application_by_appname), the periodic loop is about to run   *)
(* reconcile_all (list_applications), and either may write back            *)
(* (update_application).  The history of the conversion is left out.       *)
(***************************************************************************)
InitCache ==
    /\ pc = [p \in Procs |-> IF p = "main" THEN "stream"
                             ELSE IF p = "periodic" THEN "cycle"
                             ELSE IF p = "c1" THEN "rbn" ELSE "unstarted"]
    /\ loc = [p \in Procs |-> IF p = "c1"
                              THEN [NoLoc EXCEPT !.cid = "c1", !.name = WebName]
                              ELSE NoLoc]
    /\ handled = {"c1"}
    /\ cycles = 0
    /\ extCount = 0
    /\ events = <<>>
    /\ convLog = [c \in CIDs |-> <<>>]
    /\ upd = [p \in RecProcs |-> NoUpd]
    /\ cache = [apps |-> <<>>, ts |-> 0, lock |-> ""]
    /\ now = APPLICATION_CACHE_TTL
    /\ stop_event = FALSE
    /\ cattrs = ("c1" :> ContainerAttrs(<<"a", "1">>, <<"/", "W", "e", "b">>,
                                        (IGNORED_LABEL :> FalseText), <<BindMount>>))
                @@ ("c2" :> ContainerAttrs(<<"b", "1">>, <<"/", "w", "e", "b">>,
                                           EmptyMap, <<>>))
    /\ containers = ("c1" :> "removed") @@ ("c2" :> "running")
    /\ services = (WebName :> EngineCreateService(
                                 build_service_spec(cattrs["c1"], LOCAL_NODE_ID)))
    /\ cpApps = <<WebApp>>
    /\ apiKey = TRUE
    /\ traefik_network_id = "tnet"
    /\ rd = [NoRd EXCEPT !.cp = {cpApps}]

NextCache == Periodic \/ ByName \/ CacheClient(RecProcs) \/ Tick

SpecCache == InitCache /\ [][NextCache]_vars

(***************************************************************************)
(* The daemon from its start, with or without an API key: container c2     *)
(* ("/db") runs and is met by the sweep, container c1 ("/Web") is run      *)
(* later and met by the event loop, and the control plane holds the        *)
(* application "web".  No other client updates a service, the stream does  *)
(* not fail.                                                               *)
(***************************************************************************)
InitDaemon ==
    /\ InitThreads
    /\ cattrs = ("c1" :> ContainerAttrs(<<"a", "1">>, <<"/", "W", "e", "b">>,
                                        (IGNORED_LABEL :> FalseText), <<BindMount>>))
                @@ ("c2" :> ContainerAttrs(<<"b", "1">>, <<"/", "d", "b">>,
                                           EmptyMap, <<>>))
    /\ containers = ("c1" :> "absent") @@ ("c2" :> "running")
    /\ services = EmptyMap
    /\ cpApps = <<WebApp>>
    /\ apiKey \in BOOLEAN
    /\ traefik_network_id = "tnet"
    /\ rd = [NoRd EXCEPT !.cp = {cpApps}]

NextDaemon ==
    \/ Conversion \/ SweepList \/ SweepNext \/ StartLoops \/ EventNext
    \/ (\E c \in CIDs : ContainerRun(c))
    \/ CacheClient(RecProcs) \/ Periodic \/ ByName

SpecDaemon == InitDaemon /\ [][NextDaemon]_vars

(***************************************************************************)
(* The sweep and the start of the loops over containers as the engine      *)
(* reports them, without an API key, up to the first cycle.  Either        *)
(* container c1 carries any name of at most MaxNameLen characters (letters *)
(* of both cases, a digit, "-", "_", "." and "/") and a short or a long    *)
(* hexadecimal id while c2 is gone for good, or c1 carries one of several  *)
(* lists of mounts and is running or stopped while c2 carries any of       *)
(* C2Labels and is absent, running or stopped.                             *)
(***************************************************************************)
InitSweep ==
    LET
        NameChars == {"a", "A", "1", "-", "_", ".", "/"}

        ContainerNames == UNION {[1..n -> NameChars] : n \in 0..MaxNameLen}

        ContainerIds ==
            {<<"a", "1">>,
             <<"a", "b", "e", "0", "1", "a", "b", "e", "0", "1", "a", "b", "e">>}

        TmpfsMount ==
            [Destination |-> <<"run">>, Source |-> <<>>, Type |-> "tmpfs", RW |-> TRUE]

        VolumeMount ==
            [Destination |-> <<"data">>,
             Source |-> VolumeRoot \o <<"v", "_data">>, Type |-> "volume", RW |-> TRUE]

        MountLists ==
            {<<>>, <<BindMount>>, <<VolumeMount>>, <<TmpfsMount>>,
             <<TmpfsMount, [BindMount EXCEPT !.RW = FALSE]>>,
             <<VolumeMount, BindMount>>}
    IN
        /\ InitThreads
        /\ \/ /\ \E name \in ContainerNames, id \in ContainerIds :
                    cattrs = ("c1" :> ContainerAttrs(id, name, EmptyMap, <<BindMount>>))
                             @@ ("c2" :> ContainerAttrs(<<"b", "1">>, <<"/", "d", "b">>,
                                                        EmptyMap, <<>>))
              /\ containers = ("c1" :> "running") @@ ("c2" :> "removed")
           \/ /\ \E mounts \in MountLists, l2 \in C2Labels :
                    cattrs = ("c1" :> ContainerAttrs(<<"a", "1">>, <<"/", "W", "e", "b">>,
                                                     EmptyMap, mounts))
                             @@ ("c2" :> ContainerAttrs(<<"b", "1">>, <<"/", "d", "b">>,
                                                        l2, <<>>))
              /\ \E s1 \in {"running", "exited"}, s2 \in {"absent", "running", "exited"} :
                    containers = ("c1" :> s1) @@ ("c2" :> s2)
        /\ services = EmptyMap
        /\ cpApps = <<WebApp>>
        /\ apiKey = FALSE
        /\ traefik_network_id = "tnet"
        /\ rd = [NoRd EXCEPT !.cp = {cpApps}]

NextSweep ==
    \/ SweepList \/ SweepNext \/ StartLoops \/ Conversion
    \/ (\E c \in CIDs : ContainerRun(c) \/ ContainerStart(c))
    \/ EventNext
    \/ (\E c \in CIDs : ByNameBegin(c))
    \/ ReconcileAllBegin

SpecSweep == InitSweep /\ [][NextSweep]_vars

(***************************************************************************)
(* The two loops with SIGINT or SIGTERM at any moment, each loop on its    *)
(* own: the event loop with a stream that may fail and containers run on   *)
(* the node, and the periodic loop.  A loop is scheduled whenever it can   *)
(* take a step; the node (docker run, the signal, the failure of the       *)
(* stream) owes nothing, and the tasks the event loop starts are not       *)
(* followed.                                                               *)
(***************************************************************************)
InitStop ==
    /\ InitRec
    /\ services = (WebName :> ManagedService)
    /\ cpApps = OtherApps \o <<WebApp>>
    /\ apiKey
    /\ traefik_network_id = "tnet"

NextStopEvents ==
    \/ Cancel \/ (\E c \in CIDs : ContainerRun(c))
    \/ EventNext \/ StreamError \/ Resubscribe

SpecStopEvents ==
    /\ InitStop
    /\ [][NextStopEvents]_vars
    /\ WF_vars(EventNext \/ Resubscribe)

PeriodicThread == Periodic \/ PeriodicExit \/ CacheClient({"periodic"})

NextStopPeriodic == Cancel \/ PeriodicThread

SpecStopPeriodic ==
    /\ InitStop
    /\ [][NextStopPeriodic]_vars
    /\ WF_vars(PeriodicThread)

(***************************************************************************)
(* The event loop and the conversions it starts, scheduled whenever they   *)
(* can take a step, on a node where containers are run; the stream does    *)
(* not fail.  A conversion is followed up to its return to                 *)
(* process_container.                                                      *)
(***************************************************************************)
NextEvents == (\E c \in CIDs : ContainerRun(c)) \/ EventNext \/ Conversion

SpecEvents ==
    /\ InitStop
    /\ [][NextEvents]_vars
    /\ WF_vars(EventNext \/ Conversion)

(***************************************************************************)
(* build_desired_labels over the records the control plane can hold: up to *)
(* two labels (router rules with one Host clause, with a path and a Host   *)
(* clause, with two Host clauses, with Host( text that is no Host clause,  *)
(* without any; a port; a label that is no rule and holds a Host clause; a *)
(* managed marker) and up to two domains (of either type, with and without *)
(* a host, with equal and different keys).  The periodic loop reconciles   *)
(* the one service of the application's name.                              *)
(***************************************************************************)
InitLabels ==
    LET ApiKey == <<"traefik", "http", "routers", "api", "rule">>
        RuleValues == {HostRule("old"), HostRule("new"),
                       <<[t |-> "Path", a |-> <<"/">>], [t |-> "Host", a |-> <<"new">>]>>,
                       <<[t |-> "Host", a |-> <<"old">>], [t |-> "Host", a |-> <<"new">>]>>,
                       <<[t |-> "HostRaw", a |-> <<"old">>]>>,
                       <<[t |-> "Path", a |-> <<"/">>]>>}
        Pairs == ({RuleKey} \X RuleValues)
                 \cup ({ApiKey} \X {HostRule("old"), HostRule("alt"),
                                     <<[t |-> "HostRaw", a |-> <<"new">>]>>})
                 \cup ({PortKey} \X {Lit(<<"8", "0">>), HostRule("old")})
                 \cup ({MANAGED_LABEL} \X {Lit(FalseText)})
        LabelLists == {<<>>} \cup {<<x>> : x \in Pairs}
                      \cup {r \in Pairs \X Pairs : r[1][1] # r[2][1]}
        Domains == {[host |-> "new", domainType |-> "application",
                     createdAt |-> 2, uniqueConfigKey |-> 0],
                    [host |-> "old", domainType |-> "application",
                     createdAt |-> 0, uniqueConfigKey |-> 1],
                    [host |-> "old", domainType |-> "compose",
                     createdAt |-> 3, uniqueConfigKey |-> 0],
                    [host |-> "", domainType |-> "application",
                     createdAt |-> 3, uniqueConfigKey |-> 0],
                    [host |-> "alt", domainType |-> "application",
                     createdAt |-> 0, uniqueConfigKey |-> 2]}
        DomainLists == {<<>>} \cup {<<x>> : x \in Domains}
                       \cup {<<x, y>> : x \in Domains, y \in Domains}
    IN  /\ pc = [p \in Procs |-> IF p = "main" THEN "stream"
                                 ELSE IF p = "periodic" THEN "cycle" ELSE "unstarted"]
        /\ loc = [p \in Procs |-> NoLoc]
        /\ handled = {}
        /\ cycles = 0
        /\ extCount = 0
        /\ events = <<>>
        /\ convLog = [c \in CIDs |-> <<>>]
        /\ upd = [p \in RecProcs |-> NoUpd]
        /\ cache = [apps |-> <<>>, ts |-> 0, lock |-> ""]
        /\ now = APPLICATION_CACHE_TTL
        /\ stop_event = FALSE
        /\ cattrs = [c \in CIDs |-> ContainerAttrs(<<c>>, <<"/", c>>, EmptyMap, <<>>)]
        /\ containers = [c \in CIDs |-> "absent"]
        /\ services = (WebName :> ManagedService)
        /\ \E labels \in LabelLists, domains \in DomainLists :
              cpApps = <<[WebApp EXCEPT !.labelsSwarm = labels, !.domains = domains]>>
        /\ apiKey = TRUE
        /\ traefik_network_id = "tnet"
        /\ rd = [NoRd EXCEPT !.cp = {cpApps}]

NextLabels == Periodic \/ CacheClient({"periodic"})

SpecLabels == InitLabels /\ [][NextLabels]_vars

(***************************************************************************)
(* Properties.                                                             *)
(***************************************************************************)
EngineOps == {"create", "stop", "remove"}
CallResults == {"ok", "mismatch", "error"}

\* the entries of container c's log, as a set of positions
Entries(c) == DOMAIN convLog[c]

IsManaged(service) == MANAGED_LABEL \in DOMAIN service.Spec.Labels

(* C1: the reconciler issues update_service only for services whose labels  *)
(* contain the managed marker: every update_service call a thread has made  *)
(* was made on a service that carried autoswarm.managed when it was read.   *)
C1_UpdatesOnlyManaged ==
    \A p \in RecProcs :
        upd[p].result \in CallResults => IsManaged(upd[p].pre[1])

\* every spelling of "true"
TrueSpellings ==
    {<<a, b, c, d>> : a \in {"t", "T"}, b \in {"r", "R"},
                      c \in {"u", "U"}, d \in {"e", "E"}}

\* the containers the daemon must leave alone
Protected(labels) ==
    \/ MANAGED_LABEL \in DOMAIN labels
    \/ <<"com", "docker", "swarm", "service", "name">> \in DOMAIN labels
    \/ <<"com", "docker", "swarm", "task">> \in DOMAIN labels
    \/ <<"com", "docker", "compose", "project">> \in DOMAIN labels
    \/ /\ IGNORED_LABEL \in DOMAIN labels
       /\ labels[IGNORED_LABEL] \in TrueSpellings

(* C2: a container that carries the managed marker, a reserved cluster      *)
(* label or an ignore label spelling "true" in any letter case is never     *)
(* the subject of a create_service, stop or remove call, and is never       *)
(* stopped or removed, whether the sweep or an event reached it.            *)
C2_ProtectedUntouched ==
    \A c \in CIDs :
        Protected(cattrs[c].Labels) =>
            /\ \A i \in Entries(c) : convLog[c][i].op \notin EngineOps
            /\ containers[c] \in {"absent", "running"}

\* an event task has inspected a container whose ignore label reads "True"
\* and has returned
C2_Witness ==
    \E c \in CIDs :
        /\ IGNORED_LABEL \in DOMAIN cattrs[c].Labels
        /\ cattrs[c].Labels[IGNORED_LABEL] = <<"T", "r", "u", "e">>
        /\ c \in handled
        /\ pc[c] = "done"
        /\ convLog[c] = <<[op |-> "get", result |-> "ignored", proc |-> c,
                           name |-> <<>>, spec |-> <<>>, same |-> TRUE]>>
        /\ containers[c] = "running"

\* thread p is still inside the conversion of container c
Converting(p, c) ==
    pc[p] \in {"get", "create", "stop", "remove"} /\ loc[p].cid = c

CreatedBy(n) ==
    {<<c, i>> \in CIDs \X (1..3) :
        /\ i \in Entries(c)
        /\ convLog[c][i].op = "create"
        /\ convLog[c][i].result = "ok"
        /\ convLog[c][i].name = n}

(* C5: of the conversions of containers that derive the same service name, *)
(* at most one has a successful create_service, and a container is         *)
(* stopped or removed only by the conversion whose create_service          *)
(* succeeded.                                                               *)
C5_OneWinner ==
    /\ \A n \in DOMAIN services : Cardinality(CreatedBy(n)) <= 1
    /\ \A c \in CIDs :
          containers[c] \in {"exited", "removed"}
              => \E i \in Entries(c) : <<c, i>> \in CreatedBy(convLog[c][i].name)
    /\ Cardinality({c \in CIDs : containers[c] \in {"exited", "removed"}}) <= 1

\* two event tasks overlap: c2 has created the service and is about to stop
\* its container when c1's create_service is refused
C5_Witness ==
    /\ pc["c2"] = "stop"
    /\ Len(convLog["c1"]) = 2
    /\ convLog["c1"][2].op = "create" /\ convLog["c1"][2].result = "exists"
    /\ convLog["c1"][2].proc = "c1"
    /\ convLog["c2"][2].proc = "c2"
    /\ <<"c2", 2>> \in CreatedBy(WebName)

\* the replica count of a service spec
Replicas(spec) == spec.Mode.Replicated.Replicas

(* C6: every create_service call submits the label autoswarm.managed with  *)
(* the value "true" and replicated mode with one replica, and every        *)
(* service the daemon has created has one replica in every state,          *)
(* reconciled or not.                                                      *)
C6_ManagedSingleReplica ==
    \A c \in CIDs : \A i \in Entries(c) :
        LET e == convLog[c][i] IN
        e.op = "create" =>
            /\ MANAGED_LABEL \in DOMAIN e.spec[1].Labels
            /\ e.spec[1].Labels[MANAGED_LABEL] = Lit(TrueText)
            /\ DOMAIN e.spec[1].Mode = {"Replicated"}
            /\ Replicas(e.spec[1]) = 1
            /\ e.result = "ok" =>
                /\ e.name \in DOMAIN services
                /\ DOMAIN services[e.name].Spec.Mode = {"Replicated"}
                /\ Replicas(services[e.name].Spec) = 1

\* a service the daemon created from the container with the bind mount has
\* then been updated by the task's reconcile
C6_Witness ==
    /\ <<"c1", 2>> \in CreatedBy(WebName)
    /\ upd["c1"].result = "ok"
    /\ services[WebName].Version > 1
    /\ services[WebName].Spec.TaskTemplate.Placement # {}

\* the labels reconcile wants on the service of application A
DesiredOf(application) == PairsToMap(build_desired_labels(application).labels)

Contains(labels, wanted) ==
    \A k \in DOMAIN wanted : k \in DOMAIN labels /\ labels[k] = wanted[k]

(* C7: after every successful update_service of reconcile(A, S), the       *)
(* service's labels and its container spec's labels each contain every     *)
(* desired label of A with its desired value.                              *)
C7_LabelsSuperset ==
    \A p \in RecProcs :
        upd[p].result = "ok" =>
            /\ Contains(upd[p].post[1].Spec.Labels, DesiredOf(upd[p].app[1]))
            /\ Contains(upd[p].post[1].Spec.TaskTemplate.ContainerSpec.Labels,
                        DesiredOf(upd[p].app[1]))

\* a successful update replaced a label value the service had, rewrote a
\* host rule, and kept a label the application does not name
C7_Witness ==
    /\ upd["periodic"].result = "ok"
    /\ build_desired_labels(upd["periodic"].app[1]).changed
    /\ Get(upd["periodic"].pre[1].Spec.Labels, PortKey, <<>>) = Lit(<<"8", "1">>)
    /\ Get(upd["periodic"].post[1].Spec.Labels, PortKey, <<>>) = Lit(<<"8", "0">>)
    /\ Get(upd["periodic"].post[1].Spec.Labels, RuleKey, <<>>) = HostRule("new")

(* C8: reconcile is idempotent: on the service a successful update left,   *)
(* reconcile of the same application decides that nothing is to change;    *)
(* and an invocation that decides so leaves the services as they were, so  *)
(* that repeating it decides the same.                                     *)
C8_Idempotent ==
    \A p \in RecProcs :
        /\ upd[p].result = "ok" =>
              ReconcileDecision(upd[p].app[1], upd[p].post[1],
                                traefik_network_id).kind = "aligned"
        /\ upd[p].kind = "aligned" =>
              /\ upd[p].result = "none"
              /\ upd[p].same
              /\ ReconcileDecision(upd[p].app[1], upd[p].pre[1],
                                   traefik_network_id).kind = "aligned"

\* the second cycle found aligned the service that the first cycle updated
C8_Witness ==
    /\ cycles = 2
    /\ extCount = 0
    /\ upd["periodic"].kind = "aligned"
    /\ upd["periodic"].pre[1].Version = 2
    /\ IsManaged(upd["periodic"].pre[1])

(* C9: an invocation of reconcile makes at most one update_service call,   *)
(* and when that call fails, by a version mismatch or another engine       *)
(* error, the invocation makes no write-back and is not about to make one. *)
C9_OneCallNoWriteBack ==
    \A p \in RecProcs :
        /\ upd[p].calls <= 1
        /\ upd[p].result \in {"mismatch", "error"} =>
              /\ upd[p].wb = 0
              /\ pc[p] # "writeback"
              /\ loc[p].wb = <<>>

\* an update that would have been written back failed, and the cycle went on
C9_Witness ==
    /\ upd["periodic"].result = "error"
    /\ upd["periodic"].calls = 1
    /\ build_desired_labels(upd["periodic"].app[1]).changed
    /\ pc["periodic"] = "iter"
    /\ cpApps[3] = upd["periodic"].app[1]

(* C10: an update rejected for its version changes nothing in the services, *)
(* and it is rejected only when the service was modified after the cycle   *)
(* read it: each cycle reads the service afresh, so that the cycle after a *)
(* rejection submits the current version and is not rejected unless the    *)
(* service is modified again.                                              *)
C10_MismatchThenFresh ==
    \A p \in RecProcs :
        /\ upd[p].result = "mismatch" =>
              /\ upd[p].same
              /\ upd[p].engineVersion # upd[p].readAt
              /\ upd[p].pre[1].Version = upd[p].readAt
        /\ upd[p].result = "ok" =>
              /\ upd[p].pre[1].Version = upd[p].readAt
              /\ upd[p].engineVersion = upd[p].readAt

\* the first cycle's update was rejected, the second cycle's update of the
\* same service was accepted
C10_Witness ==
    /\ cycles = 2
    /\ upd["periodic"].mismatches = 1
    /\ upd["periodic"].result = "ok"
    /\ upd["periodic"].pre[1].Version = 2
    /\ upd["periodic"].post[1].Version = 3

C12_NoLabelsNoEffect ==
    \A p \in RecProcs :
        (upd[p].app # <<>> /\ upd[p].app[1].labelsSwarm = <<>>) =>
            /\ upd[p].result = "none"
            /\ upd[p].calls = 0
            /\ upd[p].wb = 0
            /\ upd[p].same

\* an application without labels was reconciled against a service whose
\* networks are not the application's
C12_Witness ==
    /\ upd["periodic"].kind = "nolabels"
    /\ upd["periodic"].app[1].labelsSwarm = <<>>
    /\ ~service_networks_match(
           upd["periodic"].pre[1].Spec.Networks,
           build_desired_networks(upd["periodic"].app[1], traefik_network_id))

(* C13: a reconcile of a service whose version index is missing makes no    *)
(* update_service call and no write-back to the control plane, and leaves   *)
(* the service as it was, also when its labels or networks differ from the  *)
(* desired ones.                                                            *)
C13_NoVersionNoUpdate ==
    \A p \in RecProcs :
        (upd[p].pre # <<>> /\ upd[p].pre[1].Version = NoVersion) =>
            /\ upd[p].result = "none"
            /\ upd[p].calls = 0
            /\ upd[p].wb = 0
            /\ upd[p].same

\* a service without version index whose labels differ from the desired
\* ones, with a Host rule that would be written back, was reconciled
C13_Witness ==
    /\ upd["periodic"].kind = "noversion"
    /\ upd["periodic"].pre[1].Version = NoVersion
    /\ build_desired_labels(upd["periodic"].app[1]).changed
    /\ ~service_labels_match(upd["periodic"].pre[1].Spec.Labels,
                             DesiredOf(upd["periodic"].app[1]))

(* C14: within one cycle of reconcile_all, when the reconcile of one pair   *)
(* raises an exception, every remaining pair of the cycle is still          *)
(* reconciled: whenever the periodic loop waits for its next cycle, every   *)
(* application of the cycle's list that carries the name of a listed        *)
(* service has been handed to reconcile_application in that cycle.          *)
C14_CycleReconcilesAll ==
    pc["periodic"] = "wait" =>
        upd["periodic"].matching \subseteq upd["periodic"].reconciled

\* the periodic loop waits after a cycle c that an exception ended
RaisedInCycle(c) ==
    /\ pc["periodic"] = "wait"
    /\ cycles = c
    /\ upd["periodic"].result = "raised"
    /\ upd["periodic"].inv[1] = c

(* C15: neither loop ends (nothing cancels them here): a cycle of           *)
(* reconcile_all that an exception ended is followed by the next cycle, and *)
(* an event loop whose stream raised subscribes to the stream again.        *)
C15_LoopsGoOn ==
    /\ [](pc["periodic"] # "done" /\ pc["main"] # "done")
    /\ \A c \in 1..(MaxCycles - 1) : RaisedInCycle(c) ~> (cycles = c + 1)
    /\ (pc["main"] = "resubscribe") ~> (pc["main"] = "stream")

\* the periodic loop is in a cycle after one that an exception ended, and
\* the event loop has caught an error of its stream
C15_Witness ==
    /\ upd["periodic"].result = "raised"
    /\ upd["periodic"].inv[1] < cycles
    /\ pc["periodic"] \in {"refresh", "copy_list", "list_services", "iter"}
    /\ pc["main"] = "resubscribe"

\* the reads that have just returned
ReadsDone == {rd.read[p] : p \in {q \in RecProcs : rd.read[q].done}}

(* C16: a read (list_applications, find_application_by_appname) whose       *)
(* refresh finds now - timestamp < TTL makes no fetch and installs nothing: *)
(* it answers from the snapshot the cache holds; a read whose refresh finds *)
(* now - timestamp >= TTL makes exactly one fetch attempt before it answers.*)
C16_TtlDecidesFetch ==
    \A r \in ReadsDone :
        /\ (r.now - r.ts) < APPLICATION_CACHE_TTL => (r.fetches = 0 /\ r.commits = 0)
        /\ (r.now - r.ts) >= APPLICATION_CACHE_TTL => r.fetches = 1

\* one thread has just read a snapshot younger than TTL without a fetch,
\* another has just read after the one fetch its refresh had to make
C16_Witness ==
    \E p, q \in RecProcs :
        /\ rd.read[p].done /\ rd.read[q].done
        /\ (rd.read[p].now - rd.read[p].ts) < APPLICATION_CACHE_TTL
        /\ rd.read[p].fetches = 0 /\ rd.read[p].apps # <<>>
        /\ (rd.read[q].now - rd.read[q].ts) >= APPLICATION_CACHE_TTL
        /\ rd.read[q].fetches = 1

(* C17: every snapshot a read returns has age <= TTL at the time of the     *)
(* read: the timestamp of the fetch that brought it lies no more than TTL   *)
(* before the time the read returns.                                        *)
C17_AgeWithinTtl ==
    \A r \in ReadsDone : (r.at - r.rts) <= APPLICATION_CACHE_TTL

(* C18: a read that begins after an update_application whose post succeeded *)
(* has returned answers with a snapshot that was fetched after that post,   *)
(* never with the snapshot from before the write.                           *)
C18_ReadAfterWrite ==
    \A r \in ReadsDone : r.w >= r.startW

\* thread p's fetch fails in this step
FetchFails(p) ==
    /\ pc[p] = "refresh"
    /\ is_enabled
    /\ ~CacheFresh(loc[p].force, now, cache.ts)
    /\ pc'[p] \notin {"refresh", "commit"}

\* thread p's post of update_application fails in this step
PostFails(p) ==
    /\ pc[p] = "writeback"
    /\ is_enabled
    /\ pc'[p] # "writeback"
    /\ rd'.posted = rd.posted

(* C19: a fetch that fails leaves the snapshot and its timestamp as they    *)
(* were; a write whose post fails starts no refresh and leaves the snapshot *)
(* and the timestamp as they were.                                          *)
C19_FailureChangesNothing ==
    [][\A p \in RecProcs :
          /\ FetchFails(p) => cache' = cache
          /\ PostFails(p) => (cache' = cache /\ pc'[p] \notin {"refresh", "commit"})]_vars

\* a write-back has failed, and a read whose fetch failed has just answered
\* with the snapshot an earlier fetch had brought
C19_Witness ==
    \E p, q \in RecProcs :
        /\ upd[p].wb > 0 /\ rd.posted = 0 /\ pc[p] # "writeback"
        /\ rd.read[q].done
        /\ rd.read[q].fetches = 1 /\ rd.read[q].commits = 0
        /\ rd.read[q].apps # <<>>

(* C20: snapshot and timestamp change together: whenever no thread holds    *)
(* the lock they are those of one commit; and every read, also one made     *)
(* while a write's refresh is under way, returns a list the control plane   *)
(* held as a whole (or the empty list the client starts with), together     *)
(* with the timestamp of the commit that installed it.                      *)
C20_WholeSnapshots ==
    /\ cache.lock = "" => <<cache.apps, cache.ts>> = rd.last
    /\ \A r \in ReadsDone : r.whole

\* a read has returned a fetched snapshot while another thread was in the
\* refresh that follows its write
C20_Witness ==
    \E p \in RecProcs :
        /\ rd.read[p].done
        /\ rd.read[p].during
        /\ rd.read[p].apps # <<>>

\* container c has been made a service by thread p
ConvertedBy(c, p) ==
    \E i \in Entries(c) :
        /\ convLog[c][i].op = "create"
        /\ convLog[c][i].result = "ok"
        /\ convLog[c][i].proc = p

(* C21: without an API key the client is not enabled; the cache stays the   *)
(* empty list, so that list_applications would return the empty list and    *)
(* find_application_by_appname none; no post has changed the control plane; *)
(* no request has been sent to the control plane; and no thread has called  *)
(* update_service.                                                          *)
C21_DisabledDoesNothing ==
    ~apiKey =>
        /\ ~is_enabled
        /\ cache = [apps |-> <<>>, ts |-> 0, lock |-> ""]
        /\ \A n \in DOMAIN services : FindByAppName(cache.apps, n) = <<>>
        /\ rd.posted = 0 /\ rd.cp = {cpApps}
        /\ ~rd.http
        /\ \A p \in RecProcs : upd[p].calls = 0 /\ upd[p].result = "none"

\* without an API key the sweep has converted c2, the event loop's task has
\* converted c1 and returned from its reconcile by name, and the periodic
\* loop has run a cycle
C21_Witness ==
    /\ ~apiKey
    /\ ConvertedBy("c2", "main")
    /\ ConvertedBy("c1", "c1")
    /\ pc["c1"] = "done"
    /\ cycles >= 1 /\ pc["periodic"] = "wait"

(* C22: every event the event loop has dispatched a conversion for is of    *)
(* type "container" with action "create" or "start", and no two dispatched  *)
(* events carry the same container id, stream errors and reconnects         *)
(* included.                                                                *)
C22_DispatchOncePerId ==
    /\ \A i \in DOMAIN rd.disp :
          /\ rd.disp[i].Type = "container"
          /\ rd.disp[i].Action \in {"create", "start"}
    /\ \A i, j \in DOMAIN rd.disp : rd.disp[i].id = rd.disp[j].id => i = j

\* after a stream error and the reconnect, the loop is about to receive a
\* start event of a container it has dispatched before
C22_Witness ==
    /\ rd.failed
    /\ pc["main"] = "stream"
    /\ events # <<>>
    /\ EventWanted(Head(events))
    /\ \E i \in DOMAIN rd.disp : rd.disp[i].id = Head(events).id

\* the calls of create_service_from_container made for container c
Submissions(c) == {i \in Entries(c) : convLog[c][i].op = "get"}

(* C23: over the process lifetime, the sweep and the event loop taken       *)
(* together, create_service_from_container is called at most once for a     *)
(* container id.                                                            *)
C23_SubmittedOnce == \A c \in CIDs : Cardinality(Submissions(c)) <= 1

(* C24: once the signal is set the event loop eventually returns, and no    *)
(* conversion is dispatched for an event received while the signal is set.  *)
C24_EventLoopStops ==
    /\ stop_event ~> (pc["main"] = "stopped")
    /\ [](~rd.late)

(* C25: once the signal is set, the periodic loop's wait returns without    *)
(* time passing, no further cycle begins, and the loop eventually returns.  *)
C25_PeriodicLoopStops ==
    /\ [][stop_event /\ pc["periodic"] = "wait" /\ pc'["periodic"] # "wait"
            => now' = now]_vars
    /\ [][stop_event => cycles' = cycles]_vars
    /\ stop_event ~> (pc["periodic"] = "stopped")

\* the signal came during or after the first cycle, and the loop has returned
\* with no interval waited
C25_Witness ==
    /\ stop_event
    /\ pc["periodic"] = "stopped"
    /\ cycles = 1
    /\ now = APPLICATION_CACHE_TTL

\* main is in initial_sweep
InSweep == pc["main"] \in {"sweep_list", "sweep", "get", "create", "stop", "remove"}

\* the containers initial_sweep has called create_service_from_container for
Swept == {c \in CIDs : \E i \in Submissions(c) : convLog[c][i].proc = "main"}

(* C26: while main is in the sweep the periodic thread is not started, no    *)
(* cycle has begun, and the event loop has subscribed to nothing and        *)
(* dispatched nothing; the sweep submits only containers its list held that *)
(* are neither cluster-owned nor ignored, and once it is over it has        *)
(* submitted every one of them, running or stopped.                         *)
C26_SweepFirst ==
    /\ InSweep =>
          /\ pc["periodic"] = "unstarted"
          /\ cycles = 0
          /\ events = <<>> /\ handled = {} /\ rd.disp = <<>>
    /\ Swept \subseteq {c \in rd.listed : ~Protected(cattrs[c].Labels)}
    /\ (~InSweep) => Swept = {c \in rd.listed : ~Protected(cattrs[c].Labels)}

\* the sweep is over: it has submitted the stopped container c1 and passed
\* over the running container c2, which is ignored, and the first cycle has
\* begun
C26_Witness ==
    /\ pc["main"] = "stream"
    /\ cycles = 1
    /\ rd.listed = {"c1", "c2"}
    /\ Swept = {"c1"}
    /\ convLog["c1"][1].result = "ok"
    /\ containers["c2"] = "running"
    /\ \E i \in Entries("c1") :
          convLog["c1"][i].op = "stop" /\ convLog["c1"][i].result = "ok"
    /\ IGNORED_LABEL \in DOMAIN cattrs["c2"].Labels

\* the characters of a service name
ServiceNameChars ==
    {"a", "b", "c", "d", "e", "f", "g", "h", "i", "j", "k", "l", "m", "n",
     "o", "p", "q", "r", "s", "t", "u", "v", "w", "x", "y", "z",
     "0", "1", "2", "3", "4", "5", "6", "7", "8", "9", "-", "_"}

ValidServiceName(name) ==
    /\ name # <<>>
    /\ \A i \in DOMAIN name : name[i] \in ServiceNameChars
    /\ name[1] # "-"
    /\ name[Len(name)] # "-"

(* C27: the name derive_service_name returns for a container, whatever its  *)
(* name and id, is not empty, holds only characters of [a-z0-9_-] and       *)
(* neither starts nor ends with "-"; so is every name a conversion has      *)
(* derived and submitted.                                                   *)
C27_ServiceNameValid ==
    /\ \A c \in CIDs : ValidServiceName(derive_service_name(cattrs[c]))
    /\ \A c \in CIDs : \A i \in Entries(c) :
          convLog[c][i].op = "create" => ValidServiceName(convLog[c][i].name)

\* a container whose name holds nothing but "/" and "." has been made the
\* service autoswarm-<the first 8 characters of its id>
C27_Witness ==
    /\ cattrs["c1"].Name = <<"/", ".", ".">>
    /\ Len(cattrs["c1"].Id) > 8
    /\ ConvertedBy("c1", "main")
    /\ convLog["c1"][2].name
           = AutoswarmPrefix \o <<"a", "b", "e", "0", "1", "a", "b", "e">>
    /\ convLog["c1"][2].name \in DOMAIN services

\* container c has a bind mount
HasBindMount(c) ==
    \E i \in DOMAIN cattrs[c].Mounts : cattrs[c].Mounts[i].Type = "bind"

LocalConstraint == <<"node.id==", LOCAL_NODE_ID>>

(* C28: the service spec translated from a container that has a bind mount  *)
(* carries the placement constraint node.id==<local node id>, in            *)
(* build_service_spec's result and in every create_service call.            *)
C28_BindMountPinned ==
    \A c \in CIDs :
        HasBindMount(c) =>
            /\ LocalConstraint
                   \in build_service_spec(cattrs[c], LOCAL_NODE_ID).TaskTemplate.Placement
            /\ \A i \in Entries(c) :
                  convLog[c][i].op = "create" =>
                      LocalConstraint
                          \in convLog[c][i].spec[1].TaskTemplate.Placement

\* a service has been created from the container whose mounts are a tmpfs
\* and a read-only bind mount, with the constraint
C28_Witness ==
    /\ Len(cattrs["c1"].Mounts) = 2
    /\ cattrs["c1"].Mounts[1].Type = "tmpfs"
    /\ ConvertedBy("c1", "main")
    /\ services[WebName].Spec.TaskTemplate.Placement = {LocalConstraint}
    /\ Len(services[WebName].Spec.TaskTemplate.ContainerSpec.Mounts) = 1

\* the invocation of reconcile_application that thread p has just left
LastInvocation(p) ==
    IF p = "periodic" THEN <<cycles, loc[p].idx - 1>> ELSE <<0, 0>>

(* C29: a thread is about to call update_application only when, in the      *)
(* invocation it has just left, update_service was called once and          *)
(* succeeded and a host rule of the application was rewritten; the call     *)
(* carries the application's id, the desired labels with the rewritten      *)
(* rules, and the application's networkSwarm as it was read.                *)
C29_WriteBackAfterUpdate ==
    \A p \in RecProcs :
        pc[p] = "writeback" =>
            /\ loc[p].wb # <<>>
            /\ upd[p].inv = LastInvocation(p)
            /\ upd[p].result = "ok" /\ upd[p].calls = 1 /\ upd[p].wb = 0
            /\ upd[p].post[1].Version = upd[p].pre[1].Version + 1
            /\ LET application == upd[p].app[1]
                   call == loc[p].wb[1]
               IN  /\ PairsToMap(call.labels) # PairsToMap(application.labelsSwarm)
                   /\ build_desired_labels(application).changed
                   /\ call.application_id = application.applicationId
                   /\ PairsToMap(call.labels) = DesiredOf(application)
                   /\ call.labels = build_desired_labels(application).labels
                   /\ call.networks = application.networkSwarm

\* the periodic reconcile has updated the service and is about to write back
\* the rule rewritten for the host "new", with the application's networks
C29_Witness ==
    /\ pc["periodic"] = "writeback"
    /\ upd["periodic"].result = "ok"
    /\ LET application == upd["periodic"].app[1]
           call == loc["periodic"].wb[1]
       IN  /\ Get(PairsToMap(call.labels), RuleKey, <<>>) = HostRule("new")
           /\ Get(PairsToMap(application.labelsSwarm), RuleKey, <<>>) # HostRule("new")
           /\ call.networks = application.networkSwarm
           /\ call.networks # <<>>

\* merged is current with the entries of desired laid over it
Overridden(current, desired, merged) ==
    /\ DOMAIN merged = DOMAIN current \cup DOMAIN desired
    /\ \A k \in DOMAIN desired : merged[k] = desired[k]
    /\ \A k \in DOMAIN current \ DOMAIN desired : merged[k] = current[k]

(* C30: every update_service call submits, as the service's labels, the     *)
(* service's current labels overridden by the desired ones, and as the      *)
(* container spec's labels, the container spec's current labels overridden  *)
(* by the desired ones: every current key is still there, a key that is not *)
(* desired keeps its value, and each level is merged from its own labels.   *)
C30_LabelsMerged ==
    \A p \in RecProcs :
        upd[p].submitted # <<>> =>
            LET current == upd[p].pre[1].Spec
                desired == DesiredOf(upd[p].app[1])
                call == upd[p].submitted[1]
            IN  /\ Overridden(current.Labels, desired, call.labels)
                /\ Overridden(current.TaskTemplate.ContainerSpec.Labels, desired,
                              call.task_template.ContainerSpec.Labels)
                /\ DOMAIN current.Labels \subseteq DOMAIN call.labels
                /\ DOMAIN current.TaskTemplate.ContainerSpec.Labels
                       \subseteq DOMAIN call.task_template.ContainerSpec.Labels

\* an accepted update of a service whose own labels hold the managed marker,
\* which is not desired and which its container spec does not hold: the
\* service keeps the marker, the container spec's labels are the desired ones
C30_Witness ==
    /\ upd["periodic"].result = "ok"
    /\ LET current == upd["periodic"].pre[1].Spec
           desired == DesiredOf(upd["periodic"].app[1])
           after == upd["periodic"].post[1].Spec
       IN  /\ MANAGED_LABEL \in DOMAIN current.Labels \ DOMAIN desired
           /\ MANAGED_LABEL \notin DOMAIN current.TaskTemplate.ContainerSpec.Labels
           /\ after.Labels[MANAGED_LABEL] = current.Labels[MANAGED_LABEL]
           /\ after.TaskTemplate.ContainerSpec.Labels = desired
           /\ \E k \in DOMAIN desired :
                 k \in DOMAIN current.Labels /\ current.Labels[k] # desired[k]

\* the targets an application asks for: those of its networkSwarm entries
\* that name one, and the ingress overlay when its id is resolved
DesiredTargets(application) ==
    {application.networkSwarm[i].Target : i \in
        {j \in DOMAIN application.networkSwarm :
            application.networkSwarm[j].Target # ""}}
    \cup (IF traefik_network_id # "" THEN {traefik_network_id} ELSE {})

\* the targets of a list of network attachments
Targets(networks) == {networks[i].Target : i \in DOMAIN networks}

(* C31: after a successful update of reconcile the service's network        *)
(* targets are exactly the desired ones: the targets of the application's   *)
(* networkSwarm entries that name one, and the ingress overlay id when it   *)
(* is resolved; a current target that is not desired is gone.               *)
C31_NetworksReplaced ==
    \A p \in RecProcs :
        upd[p].result = "ok" =>
            /\ Targets(upd[p].post[1].Spec.Networks) = DesiredTargets(upd[p].app[1])
            /\ Targets(upd[p].submitted[1].networks) = DesiredTargets(upd[p].app[1])

\* an accepted update took the service off a network that is not desired
\* and attached it to the ingress overlay, which the application does not
\* name
C31_Witness ==
    /\ upd["periodic"].result = "ok"
    /\ traefik_network_id = "tnet"
    /\ "lnet" \in Targets(upd["periodic"].pre[1].Spec.Networks)
    /\ "lnet" \notin Targets(upd["periodic"].post[1].Spec.Networks)
    /\ "tnet" \in Targets(upd["periodic"].post[1].Spec.Networks)
    /\ "tnet" \notin Targets(upd["periodic"].app[1].networkSwarm)

\* the labels of a record that are router rules naming a host: the key ends
\* in .rule and the value has a Host clause
HostRules(labels) ==
    {i \in DOMAIN labels :
        /\ labels[i][1][Len(labels[i][1])] = "rule"
        /\ \E k \in DOMAIN labels[i][2] : labels[i][2][k].t = "Host"}

\* the host the clause of lowest index names
FirstNamed(value) ==
    LET k == CHOOSE k \in DOMAIN value :
                 /\ value[k].t = "Host"
                 /\ \A j \in 1..(k - 1) : value[j].t # "Host"
    IN  value[k].a[1]

\* the labels whose key ends in .rule and whose value contains Host(
HostTexts(labels) ==
    {i \in DOMAIN labels :
        /\ labels[i][1][Len(labels[i][1])] = "rule"
        /\ \E k \in DOMAIN labels[i][2] : labels[i][2][k].t \in {"Host", "HostRaw"}}

\* what C32 says of one record: p is the primary domain build_desired_labels
\* chose and out the labels it returned
PrimaryAsDeclared(labels, domains, p, out) ==
    LET rules == HostRules(labels)
        first == CHOOSE i \in rules : \A j \in rules : i <= j
        matching == IF rules = {} THEN {}
                    ELSE {i \in DOMAIN domains :
                             domains[i].host = FirstNamed(labels[first][2])}
        applications == {i \in DOMAIN domains : domains[i].domainType = "application"}
        Key(d) == IF d.createdAt # 0 THEN d.createdAt ELSE d.uniqueConfigKey
    IN  /\ matching # {} => p \in matching /\ \A j \in matching : p <= j
        /\ matching = {} /\ applications # {} =>
              /\ p \in applications
              /\ \A j \in applications : Key(domains[j]) <= Key(domains[p])
        /\ matching = {} /\ applications = {} => p = 0
        /\ Len(out) = Len(labels)
        /\ \A i \in DOMAIN labels : out[i][1] = labels[i][1]
        /\ \A i \in DOMAIN labels \ HostTexts(labels) : out[i] = labels[i]
        /\ IF p # 0 /\ domains[p].host # ""
           THEN \A i \in HostTexts(labels) :
                    /\ \E k \in DOMAIN out[i][2] : out[i][2][k].t = "Host"
                    /\ FirstNamed(out[i][2]) = domains[p].host
           ELSE out = labels

(* C32: the primary domain of build_desired_labels is the first declared    *)
(* domain whose host is the host of the first Host rule of labels_swarm;    *)
(* when no domain matches it is a domain of type application of largest key *)
(* (created_at, else unique_config_key); every label whose key ends in      *)
(* .rule and whose value contains Host( then names the primary host, and    *)
(* the other labels are returned unchanged.                                 *)
C32_PrimaryDomain ==
    \A i \in DOMAIN cpApps :
        PrimaryAsDeclared(cpApps[i].labelsSwarm, cpApps[i].domains,
                          PrimaryDomainIndex(cpApps[i].labelsSwarm, cpApps[i].domains),
                          build_desired_labels(cpApps[i]).labels)

\* reconcile submitted the labels of a record whose first Host rule names
\* "old" and whose second domain is the first of host "old": the rule is
\* left as it is although the first domain is the application domain of
\* largest key
C32_Witness ==
    /\ upd["periodic"].result = "ok"
    /\ Len(upd["periodic"].app[1].domains) = 2
    /\ upd["periodic"].app[1].domains[1].host = "new"
    /\ upd["periodic"].app[1].domains[1].createdAt = 2
    /\ upd["periodic"].app[1].domains[2].host = "old"
    /\ upd["periodic"].app[1].labelsSwarm # <<>>
    /\ upd["periodic"].app[1].labelsSwarm[1] = <<RuleKey, HostRule("old")>>
    /\ Get(upd["periodic"].post[1].Spec.Labels, RuleKey, <<>>) = HostRule("old")

\* build_desired_labels of the record with the labels it returned in the
\* place of its labels_swarm
BuiltAgain(application) ==
    build_desired_labels(
        [application EXCEPT !.labelsSwarm = build_desired_labels(application).labels])

(* C39: rule normalisation is idempotent: build_desired_labels of a record  *)
(* whose labels_swarm are the labels build_desired_labels returned for it,  *)
(* with the same domains, returns these labels and changed = false.         *)
C39_NormaliseIdempotent ==
    \A i \in DOMAIN cpApps :
        /\ BuiltAgain(cpApps[i]).labels = build_desired_labels(cpApps[i]).labels
        /\ ~BuiltAgain(cpApps[i]).changed

\* the write-back of rewritten rules was posted, and the next cycle found
\* nothing to rewrite in the record it read
C39_Witness ==
    /\ rd.posted = 1
    /\ cycles = 2
    /\ upd["periodic"].inv[1] = 2
    /\ upd["periodic"].wb = 0
    /\ upd["periodic"].app # <<>>
    /\ upd["periodic"].app[1] = cpApps[1]
    /\ HostTexts(cpApps[1].labelsSwarm) # {}
    /\ ~build_desired_labels(cpApps[1]).changed

\* the service carries the marker build_service_spec gives: MANAGED_LABEL
\* with the value "true"
MarkedManaged(service) ==
    /\ MANAGED_LABEL \in DOMAIN service.Spec.Labels
    /\ service.Spec.Labels[MANAGED_LABEL] = Lit(TrueText)

(* C35: no update issued by reconcile removes the managed marker from a     *)
(* service or changes its value from "true", whatever the application       *)
(* record: a service that carried the marker before an accepted update      *)
(* carries it after.                                                        *)
C35_MarkerKept ==
    \A p \in RecProcs :
        upd[p].result = "ok" /\ MarkedManaged(upd[p].pre[1]) =>
            MarkedManaged(upd[p].post[1])

(* C36: under every interleaving of concurrent cache refreshes the cached   *)
(* snapshot is never replaced by the result of a fetch issued before the    *)
(* fetch that produced the current snapshot (a fetch that saw fewer         *)
(* write-backs than the snapshot holds was issued before it), and the cache *)
(* timestamp never decreases.                                               *)
C36_CacheMonotonic ==
    [][/\ rd'.cacheW >= rd.cacheW
       /\ cache'.ts >= cache.ts]_vars

\* the record holds a Host rule that does not name the primary host, and a
\* service carries the record's name
StaleRule(application) ==
    /\ application.appName \in DOMAIN services
    /\ build_desired_labels(application).changed

\* ... and the service carries the desired labels and networks
StaleRuleAligned(application) ==
    /\ StaleRule(application)
    /\ ReconcileDecision(application, services[application.appName],
                         traefik_network_id).kind = "aligned"

RunsEligible(c) ==
    /\ containers[c] = "running"
    /\ ~Protected(cattrs[c].Labels)
    /\ ~should_ignore(cattrs[c].Labels)

\* the event loop has started a conversion of container c
Dispatched(c) == \E i \in DOMAIN rd.disp : rd.disp[i].id = c

(* C38: every container without reserved or ignore labels that is created   *)
(* or started on the node while the daemon runs is eventually submitted to  *)
(* conversion, the event loop being scheduled fairly; also when its events  *)
(* are emitted while the event stream is being re-established after a       *)
(* stream error.                                                            *)
C38_RunEventuallySubmitted ==
    \A c \in CIDs : RunsEligible(c) ~> (stop_event \/ Dispatched(c))

\* the last call of a conversion of container c was a create_service that
\* failed with an engine error
CreateFailedLast(c) ==
    /\ convLog[c] # <<>>
    /\ convLog[c][Len(convLog[c])].op = "create"
    /\ convLog[c][Len(convLog[c])].result = "error"

(* C33: when create_service fails with a transient engine error during a    *)
(* conversion, the conversion of that container is retried later: the       *)
(* failed create_service does not stay the last call made for the           *)
(* container.                                                               *)
C33_CreateRetried ==
    \A c \in CIDs : CreateFailedLast(c) ~> ~CreateFailedLast(c)

(* C34: the modular daemon issues the calls the monolith issues: after      *)
(* every conversion that went through to the removal of the container, in   *)
(* the initial sweep as in a task of the event loop, it goes on where the   *)
(* monolith goes on, which, with the control plane configured, is the       *)
(* reconcile of the new service by name and its project.all request.        *)
C34_SameCallsAsMonolith ==
    \A c \in CIDs :
        \A i \in DOMAIN convLog[c] :
            convLog[c][i].op = "remove" /\ is_enabled =>
                AfterConv(convLog[c][i].proc, convLog[c][i].name)
                    = MonolithAfterConv(convLog[c][i].proc, convLog[c][i].name)

====
